---- MODULE Spec2Model ----
(***************************************************************************)
(* Model of docusaurus-prerender-mermaid: the passes of                    *)
(* renderAllMermaidDiagrams (src/renderer.js), loadContent of the plugin   *)
(* (src/index.js) and the remark transformer (src/remark.js).              *)
(*                                                                         *)
(* Spec is the execution half of a pass (renderer.js 146-194): the p-limit *)
(* pool, the per-task steps fs.access, fs.writeFile, execAsync(mmdc),      *)
(* fs.unlink, the two counters and the summary.  A task is named by its    *)
(* index 1..numTasks in uniqueTasks, and in Spec each task stands for its  *)
(* own output path and temp path.  JavaScript runs every continuation to   *)
(* completion, so each action is one continuation: the code between two    *)
(* awaits.                                                                 *)
(*                                                                         *)
(* SpecPlan and SpecExtract are the planning half (renderer.js 75-144):    *)
(* the scan of the content files, the parsing of each mermaid block and    *)
(* the deduplication by filename, over texts modelled token by token.      *)
(* SpecPlan scans up to MaxFiles files of a few blocks each; SpecExtract   *)
(* scans one file holding one block, of every shape of BlockSet; SpecNames *)
(* scans files holding one body under several identities and locales.      *)
(*                                                                         *)
(* SpecPass is a whole pass, planning then execution, with the files on    *)
(* disk named by their paths as path.join computes them.  SpecLoad is      *)
(* loadContent: the base style config, then one pass per theme.            *)
(* SpecRemark is the transformer over a tree of code nodes.                *)
(*                                                                         *)
(* SpecPool is Spec under any configured concurrency, the values pLimit    *)
(* refuses included.  SpecRuns is loadContent called again and again in    *)
(* one process.  SpecBuild is one build: the passes of loadContent, then   *)
(* the transformer on the tree the markdown parser makes of a scanned      *)
(* file.  SpecStore is the store (src/store.js) between the plugin and the *)
(* transformer instances, in every order of initialisation and creation.   *)
(***************************************************************************)
EXTENDS Integers, Sequences, FiniteSets, TLC

\* ---- bounds of the model ----
NumTasks == 3
MaxConcurrency == 2
MaxPasses == 2

VARIABLES
    concurrency,     \* options.concurrency, handed to pLimit (renderer.js 54)
    numTasks,        \* uniqueTasks.length (renderer.js 139)
    pass,            \* how many times renderAllMermaidDiagrams has been called
    fnState,         \* the call: "idle", "running", "returned", "rejected"
    envFailed,       \* the call rejected before line 146 (mkdir, globby, readFile)
    pc,              \* per task: "idle","queued","access","write","exec","unlink","done"
    outcome,         \* per task: "none","skipped","rendered","failed","rejected"
    queue,           \* p-limit's queue of tasks waiting for admission (FIFO)
    activeCount,     \* p-limit's activeCount
    outputs,         \* the output paths that exist on disk (see OutKey)
    tempFiles,       \* the temp input paths that exist on disk (see TempKey)
    renderedCount,   \* renderer.js 147
    skippedCount,    \* renderer.js 148
    summary,         \* the summary lines emitted by this call (renderer.js 191-194)
    existedAtStart,  \* outputs when the call started (history)
    execCount,       \* per task: renderer invocations started in this call (history)
    execRunning,     \* tasks whose renderer invocation is running
    wroteTemp,       \* tasks whose fs.writeFile succeeded in this call (history)
    unlinkAttempted, \* tasks whose fs.unlink was attempted in this call (history)
    unlinkFailed,    \* tasks whose fs.unlink failed in this call (history)
    peak,            \* peak number of simultaneous renderer invocations (history)
    clobbered        \* output paths a task found present at its check and a
                     \* later renderer invocation of the call wrote (history)

execVars == <<concurrency, numTasks, pass, fnState, envFailed, pc, outcome, queue,
          activeCount, outputs, tempFiles, renderedCount, skippedCount, summary,
          existedAtStart, execCount, execRunning, wroteTemp, unlinkAttempted,
          unlinkFailed, peak, clobbered>>

VARIABLES
    docFiles,        \* the content files globby found: [path, content]
    defaultLocale,   \* options.defaultLocale
    outputSuffix,    \* options.outputSuffix
    outputFormat,    \* options.outputFormat
    planPc,          \* "idle", "scan", "done", "rejected"
    fileIdx,         \* position of the for loop over docFiles
    diagramTasks,    \* renderer.js 78
    uniqueTasks,     \* renderer.js 139
    readFailed       \* fs.readFile rejected in this call (history)

planVars == <<docFiles, defaultLocale, outputSuffix, outputFormat, planPc,
              fileIdx, diagramTasks, uniqueTasks, readFailed>>

\* The plugin (index.js): its configuration, the process environment and the
\* position of loadContent.
VARIABLES
    nodeEnv,             \* process.env.NODE_ENV
    staticRendered,      \* process.env.MERMAID_STATIC_RENDERED === 'true'
    disableSwitch,       \* themeConfig.colorMode.disableSwitch === true
    defaultMode,         \* themeConfig.colorMode.defaultMode || 'light'
    configFileExists,    \* fs.access(absoluteConfigFile) succeeds
    hasConfigObject,     \* themeConfig.mermaid.config is an object
    loadPc,              \* "idle", "passes", "done", "rejected", "skipped"
    themeIdx,            \* how many themes of themesToRender have been started
    themeConfigPath,     \* "none" (null), "physical", "temp"
    didCreateTempConfig, \* index.js 113
    tempConfigOnDisk,    \* the temp config file exists
    passLog              \* the options of the calls of renderAllMermaidDiagrams

loadVars == <<nodeEnv, staticRendered, disableSwitch, defaultMode, configFileExists,
              hasConfigObject, loadPc, themeIdx, themeConfigPath,
              didCreateTempConfig, tempConfigOnDisk, passLog>>

\* The remark transformer (remark.js).
VARIABLES
    remarkOpts,      \* the options the transformer took from the store
    filePath,        \* file.path
    tree,            \* the children of the root: a sequence of nodes
    sourceTree,      \* the tree the transformer was given (history)
    remarkPc         \* "idle", "ready", "done"

remarkVars == <<remarkOpts, filePath, tree, sourceTree, remarkPc>>

\* The process the plugin runs in, over its calls of loadContent.
VARIABLES
    callLog,         \* one entry per ended call of loadContent (history)
    planned          \* the filenames of the tasks the passes planned (history)

\* The store the plugin and the transformers share (store.js).
VARIABLES
    store,           \* globalStore.options
    stored,          \* the calls of globalStore.set: options given, options before
    instances        \* the options each transformer instance took; << >>: not created

storeVars == <<store, stored, instances>>

hostVars == <<callLog, planned, storeVars>>

siteVars == <<loadVars, remarkVars, hostVars>>

vars == <<execVars, planVars, siteVars>>

AllTasks == 1..NumTasks
TaskIds == 1..numTasks

\* ---- helpers, one per piece of code ----

\* p-limit admits a queued function only while activeCount < concurrency.
CanAdmit_NoBound(active, c) == active <= c
CanAdmit(active, c) == active < c

\* How many queued functions p-limit starts, given the queue length.
RECURSIVE NumAdmit(_, _, _)
NumAdmit(qlen, active, c) ==
    IF qlen > 0 /\ CanAdmit(active, c)
    THEN 1 + NumAdmit(qlen - 1, active + 1, c)
    ELSE 0

Prefix(q, k) == { q[i] : i \in 1..k }
Drop(q, k) == SubSeq(q, k + 1, Len(q))

\* for (const task of uniqueTasks) renderPromises.push(limit(...)): in order.
TaskOrder(n) == [i \in 1..n |-> i]

\* path.join(dir, name): the two joined by "/" and normalised.  The path is
\* cut at its "/" into segments; an empty segment and "." are dropped, ".."
\* takes the segment before it away.
RECURSIVE Segments(_)
Segments(p) ==
    LET S == { i \in 1..Len(p) : p[i] = "/" } IN
    IF S = {} THEN <<p>>
    ELSE LET n == CHOOSE i \in S : \A k \in S : i <= k
         IN <<SubSeq(p, 1, n - 1)>> \o Segments(SubSeq(p, n + 1, Len(p)))

RECURSIVE Resolve(_, _)
Resolve(segs, acc) ==
    IF segs = << >> THEN acc
    ELSE IF Head(segs) \in { << >>, <<".">> } THEN Resolve(Tail(segs), acc)
    ELSE IF Head(segs) \in { <<"..">>, <<".", ".">> }
         THEN Resolve(Tail(segs),
                      IF acc = << >> THEN acc ELSE SubSeq(acc, 1, Len(acc) - 1))
    ELSE Resolve(Tail(segs), Append(acc, Head(segs)))

RECURSIVE JoinSegments(_)
JoinSegments(segs) ==
    IF segs = << >> THEN << >>
    ELSE IF Len(segs) = 1 THEN Head(segs)
    ELSE Head(segs) \o <<"/">> \o JoinSegments(Tail(segs))

PathJoin(dir, name) ==
    JoinSegments(Resolve(Segments(dir \o <<"/">> \o name), << >>))

\* const tempInputFile = path.join(tempDir, `temp_${task.filename}.mmd`)
TempInputFile(filename) == PathJoin(<<"tempDir">>, <<"temp_">> \o filename \o <<".mmd">>)

\* The paths of task t on disk.  The execution specification starts from
\* tasks with pairwise different paths and lets each task stand for its own;
\* with a planned pass they are the task's outputPath (renderer.js 120) and
\* its tempInputFile (renderer.js 153).
OutKey(t) == IF planPc = "idle" THEN t ELSE uniqueTasks[t].outputPath
TempKey(t) == IF planPc = "idle" THEN t ELSE TempInputFile(uniqueTasks[t].filename)

\* fs.access(task.outputPath) resolves exactly when the path exists.
AccessOk_Never(t, outs) == FALSE
AccessOk(t, outs) == t \in outs

\* renderedCount++ after a successful invocation only (renderer.js 172-173).
CountRendered(ok, r) == IF ok THEN r + 1 ELSE r

\* The step after an existence check that found no output file: line 163,
\* the temp file is written.
AfterAccessMiss_Exec == "exec"
AfterAccessMiss == "write"

\* The class of a task after fs.unlink (renderer.js 179-183): the inner
\* catch logs the error and touches no counter, the class stays what the
\* invocation made it.
AfterUnlink_Demote(ok, o) == IF ok THEN o ELSE "failed"
AfterUnlink(ok, o) == o

\* try/catch/finally: the task goes on to fs.unlink whatever the invocation did.
AfterExec_TryOnly(ok) == IF ok THEN "unlink" ELSE "done"
AfterExec(ok) == "unlink"

\* The summary the call emits: "Rendered: r new", "Skipped: s cached".
Summary(r, s) == [rendered |-> r, skipped |-> s]

InFlight == { t \in AllTasks : pc[t] \in {"access", "write", "exec", "unlink"} }
Terminal == { t \in AllTasks : pc[t] = "done" }
Drained == TaskIds \subseteq Terminal
PoolIdle == InFlight = {} /\ queue = << >>
Settled == fnState \in {"returned", "rejected"}
Failed == { t \in TaskIds : outcome[t] = "failed" }
Rejected == { t \in TaskIds : outcome[t] = "rejected" }

\* p-limit's next(): the finished task leaves, queued tasks are admitted.
\* after is pc with the finishing task already set to "done".
Release(after) ==
    LET k == NumAdmit(Len(queue), activeCount - 1, concurrency) IN
    /\ pc' = [t \in AllTasks |->
                 IF t \in Prefix(queue, k) THEN "access" ELSE after[t]]
    /\ queue' = Drop(queue, k)
    /\ activeCount' = activeCount - 1 + k

\* await Promise.all(renderPromises) resolves when the last task resolves and
\* none rejected: lines 191-194 then emit the summary and the call returns.
Settle(t, r, s) ==
    IF fnState = "running" /\ (TaskIds \ {t}) \subseteq Terminal
    THEN /\ fnState' = "returned"
         /\ summary' = {Summary(r, s)}
    ELSE UNCHANGED <<fnState, summary>>

\* ---- actions ----

\* The planning variables while the execution specification runs.
PlanIdle ==
    /\ docFiles = << >>
    /\ defaultLocale = <<"e">>
    /\ outputSuffix = << >>
    /\ outputFormat = <<"svg">>
    /\ planPc = "idle"
    /\ fileIdx = 1
    /\ diagramTasks = << >>
    /\ uniqueTasks = << >>
    /\ readFailed = FALSE

\* The plugin and the transformer while another specification runs.
LoadIdleBut ==
    /\ staticRendered = FALSE
    /\ disableSwitch = FALSE
    /\ defaultMode = "light"
    /\ configFileExists = FALSE
    /\ hasConfigObject = FALSE
    /\ loadPc = "idle"
    /\ themeIdx = 0
    /\ themeConfigPath = "none"
    /\ didCreateTempConfig = FALSE
    /\ tempConfigOnDisk = FALSE
    /\ passLog = << >>

LoadIdle == nodeEnv = "production" /\ LoadIdleBut

RemarkIdle ==
    /\ remarkOpts = << >>
    /\ filePath = << >>
    /\ tree = << >>
    /\ sourceTree = << >>
    /\ remarkPc = "idle"

\* The transformer instances a site may create: one per preset section
\* (docs, blog, pages) the remark plugin is listed in.
NumInstances == 3

\* store.js 4-16: the options of the store before any set.  null is "null",
\* which is what a template literal makes of it.
StoreDefaults ==
    [ defaultLocale |-> <<"en">>,
      outputFormat |-> <<"svg">>,
      outputSuffixes |-> [light |-> <<"-", "light">>, dark |-> <<"-", "dark">>],
      renderDualThemes |-> TRUE,
      defaultThemeSuffix |-> <<"null">> ]

StoreIdle ==
    /\ store = StoreDefaults
    /\ stored = << >>
    /\ instances = [i \in 1..NumInstances |-> << >>]

HostIdle ==
    /\ callLog = << >>
    /\ planned = {}
    /\ StoreIdle

SiteIdle == LoadIdle /\ RemarkIdle /\ HostIdle

\* The state before the first call, the concurrency option apart.
ExecStart ==
    /\ PlanIdle
    /\ SiteIdle
    /\ numTasks \in 0..NumTasks
    /\ pass = 0
    /\ fnState = "idle"
    /\ envFailed = FALSE
    /\ pc = [t \in AllTasks |-> "idle"]
    /\ outcome = [t \in AllTasks |-> "none"]
    /\ queue = << >>
    /\ activeCount = 0
    /\ outputs \in SUBSET (1..numTasks)
    /\ tempFiles = {}
    /\ renderedCount = 0
    /\ skippedCount = 0
    /\ summary = {}
    /\ existedAtStart = {}
    /\ execCount = [t \in AllTasks |-> 0]
    /\ execRunning = {}
    /\ wroteTemp = {}
    /\ unlinkAttempted = {}
    /\ unlinkFailed = {}
    /\ peak = 0
    /\ clobbered = {}

Init ==
    /\ concurrency \in 1..MaxConcurrency
    /\ ExecStart

ResetHistory ==
    /\ outcome' = [t \in AllTasks |-> "none"]
    /\ execCount' = [t \in AllTasks |-> 0]
    /\ wroteTemp' = {}
    /\ unlinkAttempted' = {}
    /\ unlinkFailed' = {}
    /\ peak' = 0
    /\ clobbered' = {}
    /\ existedAtStart' = outputs
    /\ renderedCount' = 0
    /\ skippedCount' = 0

\* renderer.js 54: pLimit(concurrency) builds the pool for an integer from 1
\* up (or Infinity) and throws a TypeError for any other value; the option
\* comes from the plugin's options as it was written (index.js 31, 155).
ValidLimit(c) == c >= 1

\* renderer.js 54: the slots of the pool, none when pLimit has thrown.
PoolSize(c) == IF ValidLimit(c) THEN c ELSE 0

\* renderer.js 34-145 fail: fs.mkdir, globby or fs.readFile rejects, and so
\* does the call, before any task is created.
CallFails ==
    /\ UNCHANGED <<planVars, siteVars>>
    /\ ValidLimit(concurrency)
    /\ fnState \in {"idle", "returned", "rejected"}
    /\ PoolIdle
    /\ pass < MaxPasses
    /\ pass' = pass + 1
    /\ fnState' = "rejected"
    /\ envFailed' = TRUE
    /\ summary' = {}
    /\ pc' = [t \in AllTasks |-> "idle"]
    /\ queue' = << >>
    /\ activeCount' = 0
    /\ ResetHistory
    /\ UNCHANGED <<concurrency, numTasks, outputs, tempFiles, execRunning>>

\* renderer.js 150-194: each of the n tasks is handed to limit() in order and
\* p-limit starts the first ones; with no task at all Promise.all([]) resolves
\* and the summary is emitted.
Enqueue(n) ==
    /\ LET q == TaskOrder(n)
           k == NumAdmit(Len(q), 0, concurrency) IN
       /\ pc' = [t \in AllTasks |->
                    IF t \in Prefix(q, k) THEN "access"
                    ELSE IF t \in 1..n THEN "queued" ELSE "idle"]
       /\ queue' = Drop(q, k)
       /\ activeCount' = k
    /\ IF n = 0
       THEN fnState' = "returned" /\ summary' = {Summary(0, 0)}
       ELSE fnState' = "running" /\ summary' = {}

\* renderer.js 34-189 up to the await: the pool is built, every task is handed
\* to limit() in order, p-limit starts the first ones; with no task at all
\* Promise.all([]) resolves and the summary is emitted.
Call ==
    /\ UNCHANGED <<planVars, siteVars>>
    /\ ValidLimit(concurrency)
    /\ fnState \in {"idle", "returned", "rejected"}
    /\ PoolIdle
    /\ pass < MaxPasses
    /\ pass' = pass + 1
    /\ envFailed' = FALSE
    /\ Enqueue(numTasks)
    /\ ResetHistory
    /\ UNCHANGED <<concurrency, numTasks, outputs, tempFiles, execRunning>>

\* renderer.js 154-161: the existence check has answered.
AccessDone(t) ==
    /\ UNCHANGED <<planVars, siteVars>>
    /\ pc[t] = "access"
    /\ IF AccessOk(OutKey(t), outputs)
       THEN /\ skippedCount' = skippedCount + 1
            /\ outcome' = [outcome EXCEPT ![t] = "skipped"]
            /\ Release([pc EXCEPT ![t] = "done"])
            /\ Settle(t, renderedCount, skippedCount + 1)
       ELSE /\ pc' = [pc EXCEPT ![t] = AfterAccessMiss]
            /\ UNCHANGED <<skippedCount, outcome, queue, activeCount, fnState, summary>>
    /\ UNCHANGED <<concurrency, numTasks, pass, envFailed, outputs, tempFiles,
                   renderedCount, existedAtStart, execCount, execRunning, wroteTemp,
                   unlinkAttempted, unlinkFailed, peak, clobbered>>

\* renderer.js 163-171: fs.writeFile succeeded; the renderer is started.
WriteOk(t) ==
    /\ UNCHANGED <<planVars, siteVars>>
    /\ pc[t] = "write"
    /\ tempFiles' = tempFiles \cup {TempKey(t)}
    /\ wroteTemp' = wroteTemp \cup {t}
    /\ pc' = [pc EXCEPT ![t] = "exec"]
    /\ execCount' = [execCount EXCEPT ![t] = @ + 1]
    /\ execRunning' = execRunning \cup {t}
    /\ peak' = IF Cardinality(execRunning) + 1 > peak
               THEN Cardinality(execRunning) + 1 ELSE peak
    /\ UNCHANGED <<concurrency, numTasks, pass, fnState, envFailed, outcome, queue,
                   activeCount, outputs, renderedCount, skippedCount, summary,
                   existedAtStart, unlinkAttempted, unlinkFailed, clobbered>>

\* renderer.js 163: fs.writeFile rejects.  The await is outside every try, so
\* the task's promise rejects, Promise.all rejects and so does the call; the
\* pool goes on with the other tasks.  The file may or may not have been
\* created before the failure.
WriteFails(t) ==
    /\ UNCHANGED <<planVars, siteVars>>
    /\ pc[t] = "write"
    /\ \E left \in BOOLEAN :
          tempFiles' = IF left THEN tempFiles \cup {TempKey(t)} ELSE tempFiles
    /\ outcome' = [outcome EXCEPT ![t] = "rejected"]
    /\ Release([pc EXCEPT ![t] = "done"])
    /\ fnState' = IF fnState = "running" THEN "rejected" ELSE fnState
    /\ UNCHANGED <<concurrency, numTasks, pass, envFailed, outputs, renderedCount,
                   skippedCount, summary, existedAtStart, execCount, execRunning,
                   wroteTemp, unlinkAttempted, unlinkFailed, peak, clobbered>>

\* The output paths a task of the call found present at its existence check.
SeenAtCheck == { OutKey(u) : u \in { v \in TaskIds : outcome[v] = "skipped" } }

\* renderer.js 167-183: the renderer has ended, with the output file written
\* (ok) or with an error and no output file; fs.unlink is started.
ExecDone(t) ==
    /\ UNCHANGED <<planVars, siteVars>>
    /\ pc[t] = "exec"
    /\ \E ok \in BOOLEAN :
          /\ outputs' = IF ok THEN outputs \cup {OutKey(t)} ELSE outputs
          /\ clobbered' = IF ok /\ OutKey(t) \in SeenAtCheck
                           THEN clobbered \cup {OutKey(t)} ELSE clobbered
          /\ renderedCount' = CountRendered(ok, renderedCount)
          /\ outcome' = [outcome EXCEPT ![t] = IF ok THEN "rendered" ELSE "failed"]
          /\ IF AfterExec(ok) = "unlink"
             THEN /\ pc' = [pc EXCEPT ![t] = "unlink"]
                  /\ unlinkAttempted' = unlinkAttempted \cup {t}
                  /\ UNCHANGED <<queue, activeCount, fnState, summary>>
             ELSE /\ Release([pc EXCEPT ![t] = "done"])
                  /\ Settle(t, CountRendered(ok, renderedCount), skippedCount)
                  /\ UNCHANGED unlinkAttempted
    /\ execRunning' = execRunning \ {t}
    /\ UNCHANGED <<concurrency, numTasks, pass, envFailed, tempFiles, skippedCount,
                   existedAtStart, execCount, wroteTemp, unlinkFailed, peak>>

\* renderer.js 179-185: fs.unlink has ended; a failure is logged and swallowed.
UnlinkDone(t) ==
    /\ UNCHANGED <<planVars, siteVars>>
    /\ pc[t] = "unlink"
    /\ \E ok \in BOOLEAN :
          /\ ok => TempKey(t) \in tempFiles
          /\ tempFiles' = IF ok THEN tempFiles \ {TempKey(t)} ELSE tempFiles
          /\ unlinkFailed' = IF ok THEN unlinkFailed ELSE unlinkFailed \cup {t}
          /\ outcome' = [outcome EXCEPT ![t] = AfterUnlink(ok, @)]
    /\ Release([pc EXCEPT ![t] = "done"])
    /\ Settle(t, renderedCount, skippedCount)
    /\ UNCHANGED <<concurrency, numTasks, pass, envFailed, outputs,
                   renderedCount, skippedCount, existedAtStart, execCount,
                   execRunning, wroteTemp, unlinkAttempted, peak, clobbered>>

Next ==
    \/ Call
    \/ CallFails
    \/ \E t \in AllTasks : AccessDone(t)
    \/ \E t \in AllTasks : WriteOk(t)
    \/ \E t \in AllTasks : WriteFails(t)
    \/ \E t \in AllTasks : ExecDone(t)
    \/ \E t \in AllTasks : UnlinkDone(t)

Spec == Init /\ [][Next]_vars

\* ---- a pass under any configured concurrency ----

\* The concurrency option is any number the site's configuration gives.
InitPool ==
    /\ concurrency \in 0..MaxConcurrency
    /\ ExecStart

\* renderer.js 54: pLimit(concurrency) throws, the call rejects before the
\* temp directory is made or a file is read; no task is created.
PLimitThrows ==
    /\ UNCHANGED <<planVars, siteVars>>
    /\ ~ValidLimit(concurrency)
    /\ fnState \in {"idle", "returned", "rejected"}
    /\ PoolIdle
    /\ pass < MaxPasses
    /\ pass' = pass + 1
    /\ fnState' = "rejected"
    /\ envFailed' = FALSE
    /\ summary' = {}
    /\ pc' = [t \in AllTasks |-> "idle"]
    /\ queue' = << >>
    /\ activeCount' = 0
    /\ ResetHistory
    /\ UNCHANGED <<concurrency, numTasks, outputs, tempFiles, execRunning>>

NextPool ==
    \/ Next
    \/ PLimitThrows

SpecPool == InitPool /\ [][NextPool]_vars

\* ======================================================================
\* Planning half of a pass (renderer.js 75-144): scan the content files,
\* extract the mermaid blocks, parse each block's metadata, derive identity
\* and filename, deduplicate by filename.
\*
\* Text is a sequence of tokens.  A token is one character ("-", "/", ".",
\* "x", ...), one white-space character ("sp", "nl"), or a literal that a
\* regular expression of the code looks for as a whole ("id:", "prerender:",
\* "false", "draft:", "true", "i18n", and the two fences: "fence:mermaid" for
\* three backquotes and the word mermaid, "fence" for three backquotes).
\* ======================================================================

IsWs(c) == c \in {"sp", "nl"}

Min(S) == CHOOSE x \in S : \A y \in S : x <= y
Max(S) == CHOOSE x \in S : \A y \in S : x >= y

RECURSIVE Flatten(_)
Flatten(ss) == IF ss = << >> THEN << >> ELSE Head(ss) \o Flatten(Tail(ss))

OccursAt(s, pat, i) ==
    /\ i >= 1
    /\ i + Len(pat) - 1 <= Len(s)
    /\ \A j \in 1..Len(pat) : s[i + j - 1] = pat[j]

\* Index of the leftmost occurrence of pat in s at or after from; 0 if none.
IndexOf(s, pat, from) ==
    LET S == { i \in from..Len(s) : OccursAt(s, pat, i) } IN
    IF S = {} THEN 0 ELSE Min(S)

\* String.prototype.trim
Trim(s) ==
    LET S == { i \in 1..Len(s) : ~IsWs(s[i]) } IN
    IF S = {} THEN << >> ELSE SubSeq(s, Min(S), Max(S))

DashRun(n) == [i \in 1..n |-> "-"]

\* metadataBlockRegex = /---([\s\S]*?)---/ : the leftmost "---" and, lazily,
\* the nearest "---" after it.  [open, close] are the indices of the two
\* delimiters, 0 when the expression does not match.
MetadataOpen(s) == IndexOf(s, DashRun(3), 1)
MetadataClose(s) ==
    IF MetadataOpen(s) = 0 THEN 0 ELSE IndexOf(s, DashRun(3), MetadataOpen(s) + 3)
MetadataMatches(s) == MetadataClose(s) # 0

\* metadataBlockMatch ? metadataBlockMatch[1] : ''
MetadataContent(s) ==
    IF MetadataMatches(s)
    THEN SubSeq(s, MetadataOpen(s) + 3, MetadataClose(s) - 1)
    ELSE << >>

\* s.replace(metadataBlockRegex, '')
StripMetadata(s) ==
    IF MetadataMatches(s)
    THEN SubSeq(s, 1, MetadataOpen(s) - 1) \o SubSeq(s, MetadataClose(s) + 3, Len(s))
    ELSE s

\* /key\s*value/ : the key, any white space, the value.
KeyWsValue(s, key, value) ==
    \E i \in 1..Len(s) :
       /\ s[i] = key
       /\ \E j \in (i + 1)..Len(s) :
             /\ s[j] = value
             /\ \A k \in (i + 1)..(j - 1) : IsWs(s[k])

\* prerenderRegex = /prerender:\s*false/
PrerenderOff_Never(m) == FALSE
PrerenderOff(m) == KeyWsValue(m, "prerender:", "false")

\* draftRegex = /draft:\s*true/
DraftMarked_Never(content) == FALSE
DraftMarked(content) == KeyWsValue(content, "draft:", "true")

\* idRegex = /id:\s*(.*)/ : group 1 of the leftmost match; << >> when the
\* expression does not match or the group is empty (both are falsy in
\* idMatch && idMatch[1]).  \s* is greedy and takes line ends too; the dot
\* stops at a line end.
IdGroup(m) ==
    LET k == IndexOf(m, <<"id:">>, 1) IN
    IF k = 0 THEN << >>
    ELSE LET nonWs == { i \in (k + 1)..Len(m) : ~IsWs(m[i]) } IN
         IF nonWs = {} THEN << >>
         ELSE LET a == Min(nonWs)
                  nls == { i \in a..Len(m) : m[i] = "nl" }
                  b == IF nls = {} THEN Len(m) ELSE Min(nls) - 1
              IN SubSeq(m, a, b)

\* block.replace(/(fence)mermaid|(fence)/g, ''), (fence) being three backquotes
RECURSIVE StripFences(_)
StripFences(s) ==
    IF s = << >> THEN << >>
    ELSE IF Head(s) \in {"fence:mermaid", "fence"} THEN StripFences(Tail(s))
    ELSE <<Head(s)>> \o StripFences(Tail(s))

\* createHash: the first HashLen hex digits of a digest of the text.  MD5 is
\* stood for by a positional checksum: a function of the text alone.
HashLen == 10
HexDigits == <<"0", "1", "2", "3", "4", "5", "6", "7",
               "8", "9", "a", "b", "c", "d", "e", "f">>
Alphabet == <<"-", "sp", "nl", "id:", "prerender:", "false", "true", "draft:",
              "x", "p", "g", "k", "e", "/", ".">>
RECURSIVE Code(_, _)
Code(c, i) ==
    IF i > Len(Alphabet) THEN 0
    ELSE IF Alphabet[i] = c THEN i ELSE Code(c, i + 1)
RECURSIVE Checksum(_, _, _)
Checksum(s, i, j) ==
    IF i > Len(s) THEN j
    ELSE (Code(s[i], 1) * (i + j) + 3 * Checksum(s, i + 1, j)) % 16
createHash(str) == [j \in 1..HashLen |-> HexDigits[Checksum(str, 1, j) + 1]]

\* const mermaidCode = block.replace(fences).replace(metadataBlockRegex).trim()
MermaidCode(block) == Trim(StripMetadata(StripFences(block)))

\* renderer.js 112-117
DiagramId(block) ==
    IF IdGroup(MetadataContent(block)) # << >>
    THEN Trim(IdGroup(MetadataContent(block)))
    ELSE createHash(MermaidCode(block))

\* the template ${id}-${locale}${outputSuffix}.${outputFormat}
Filename_NoLocale(id, locale, suffix, format) == id \o suffix \o <<".">> \o format
Filename(id, locale, suffix, format) ==
    id \o <<"-">> \o locale \o suffix \o <<".">> \o format

\* relativePath.match(/i18n\/([^\/]+)\//) : group 1, << >> when no match.
LocaleGroup(path) ==
    LET S == { k \in 1..Len(path) :
                 /\ path[k] = "i18n"
                 /\ k + 2 <= Len(path)
                 /\ path[k + 1] = "/"
                 /\ path[k + 2] # "/"
                 /\ \E e \in (k + 3)..Len(path) : path[e] = "/" } IN
    IF S = {} THEN << >>
    ELSE LET k == Min(S)
             e == Min({ i \in (k + 3)..Len(path) : path[i] = "/" })
         IN SubSeq(path, k + 2, e - 1)

\* content.match(/(fence)mermaid([\s\S]*?)(fence)/g) || [] : every block, fences
\* included, left to right.
RECURSIVE MermaidBlocks(_, _)
MermaidBlocks(content, from) ==
    LET open == IndexOf(content, <<"fence:mermaid">>, from) IN
    IF open = 0 THEN << >>
    ELSE LET close == IndexOf(content, <<"fence">>, open + 1) IN
         IF close = 0 THEN << >>
         ELSE <<SubSeq(content, open, close)>> \o MermaidBlocks(content, close + 1)

\* renderer.js 88-90
LocaleOf(path) ==
    IF LocaleGroup(path) # << >> THEN LocaleGroup(path) ELSE defaultLocale

\* renderer.js 97-133: the tasks one block queues, none or one.
BlockTasks(block, locale) ==
    IF PrerenderOff(MetadataContent(block)) THEN << >>
    ELSE << [ id |-> DiagramId(block),
              locale |-> locale,
              filename |-> Filename(DiagramId(block), locale, outputSuffix, outputFormat),
              mermaidCode |-> MermaidCode(block),
              outputPath |-> PathJoin(<<"outputDir">>,
                    Filename(DiagramId(block), locale, outputSuffix, outputFormat)) ] >>

\* renderer.js 92-133 for one file
FileTasks(file) ==
    LET blocks == MermaidBlocks(file.content, 1) IN
    Flatten([i \in 1..Len(blocks) |-> BlockTasks(blocks[i], LocaleOf(file.path))])

\* Array.from(new Map(diagramTasks.map((t) => [t.filename, t])).values()):
\* one entry per filename, at the place of the filename's first occurrence,
\* holding the last task with that filename.
Dedup_KeepAll(tasks) == tasks
Dedup(tasks) ==
    LET firsts == { i \in 1..Len(tasks) :
                      \A j \in 1..(i - 1) : tasks[j].filename # tasks[i].filename }
        last(i) == Max({ j \in 1..Len(tasks) : tasks[j].filename = tasks[i].filename })
        RECURSIVE Build(_)
        Build(i) ==
            IF i > Len(tasks) THEN << >>
            ELSE IF i \in firsts THEN <<tasks[last(i)]>> \o Build(i + 1)
            ELSE Build(i + 1)
    IN Build(1)

\* ---- the inputs of the planning specifications ----

MaxFiles == 2
MaxHeaderLines == 2

Line(toks) == toks \o <<"nl">>

\* Lines a metadata header may hold.
HeaderLineMenu ==
    { <<"id:", "sp", "x">>,
      <<"id:", "sp", "x", "-", "p", "sp">>,
      <<"id:">>,
      <<"prerender:", "sp", "false">>,
      <<"prerender:", "sp", "true">>,
      <<"x", "sp", "-", "-", "-", "sp", "p">> }

RECURSIVE SeqsUpTo(_, _)
SeqsUpTo(S, n) ==
    IF n = 0 THEN { << >> }
    ELSE LET shorter == SeqsUpTo(S, n - 1) IN
         shorter \cup { <<x>> \o q : x \in S, q \in { r \in shorter : Len(r) = n - 1 } }

BodyMenu ==
    { <<"g">>, <<"k">>,
      <<"g", "sp", "-", "-", "-", "sp", "k">>,
      <<"g", "-", "-", "-", "k", "nl", "k", "-", "-", "-", "g">> }

\* A block as it stands in a file: fence, optional header between two
\* delimiter lines of n dashes, body, fence.
Block(header, body) == <<"fence:mermaid", "nl">> \o header \o Line(body) \o <<"fence">>
Header(n, lines) ==
    Line(DashRun(n)) \o Flatten([i \in 1..Len(lines) |-> Line(lines[i])]) \o Line(DashRun(n))

HeaderSet ==
    { << >> } \cup
    { Header(n, ls) : n \in {3, 6}, ls \in SeqsUpTo(HeaderLineMenu, MaxHeaderLines) }

BlockSet == { Block(h, b) : h \in HeaderSet, b \in BodyMenu }

PathMenu ==
    { <<"docs", "/", "f.md">>,
      <<"i18n", "/", "e", "/", "docs", "/", "f.md">>,
      <<"i18n", "/", "p", "-", "e", "/", "docs", "/", "f.md">> }

FrontMatterMenu == { << >>, Line(<<"draft:", "sp", "true">>) }

FileContent(front, blocks) ==
    front \o Flatten([i \in 1..Len(blocks) |-> blocks[i] \o <<"nl">>])

\* The files of SpecPlan: a few blocks each, chosen for their identities.
BlockIdX(body) == Block(Header(3, << <<"id:", "sp", "x">> >>), body)
BlockIdXP(body) == Block(Header(3, << <<"id:", "sp", "x", "-", "p">> >>), body)
BlockOff(body) == Block(Header(3, << <<"prerender:", "sp", "false">> >>), body)
BlockListMenu ==
    { << >>,
      << Block(<< >>, <<"g">>) >>,
      << BlockIdX(<<"g">>) >>,
      << BlockIdXP(<<"g">>) >>,
      << BlockOff(<<"g">>), Block(<< >>, <<"k">>) >>,
      << BlockIdX(<<"g">>), Block(<< >>, <<"g">>), BlockIdX(<<"k">>) >> }

PlanFileSet ==
    { [path |-> p, content |-> FileContent(<< >>, bl)] :
         p \in PathMenu, bl \in BlockListMenu }
    \cup { [path |-> p, content |-> FileContent(Line(<<"draft:", "sp", "true">>),
                                                << BlockIdX(<<"g">>), BlockIdXP(<<"k">>) >>)] :
              p \in PathMenu }

\* The files of SpecExtract: one block, of every shape of BlockSet.
ExtractFileSet ==
    { [path |-> p, content |-> FileContent(f, <<b>>)] :
         p \in PathMenu, f \in FrontMatterMenu, b \in BlockSet }

SuffixMenu == { << >>, <<"-", "light">> }

\* The execution variables while a planning specification runs.
ExecIdle ==
    /\ concurrency = 1
    /\ numTasks = 0
    /\ pass = 0
    /\ fnState = "idle"
    /\ envFailed = FALSE
    /\ pc = [t \in AllTasks |-> "idle"]
    /\ outcome = [t \in AllTasks |-> "none"]
    /\ queue = << >>
    /\ activeCount = 0
    /\ outputs = {}
    /\ tempFiles = {}
    /\ renderedCount = 0
    /\ skippedCount = 0
    /\ summary = {}
    /\ existedAtStart = {}
    /\ execCount = [t \in AllTasks |-> 0]
    /\ execRunning = {}
    /\ wroteTemp = {}
    /\ unlinkAttempted = {}
    /\ unlinkFailed = {}
    /\ peak = 0
    /\ clobbered = {}

PlanStart ==
    /\ defaultLocale = <<"e">>
    /\ outputSuffix \in SuffixMenu
    /\ outputFormat = <<"svg">>
    /\ planPc = "scan"
    /\ fileIdx = 1
    /\ diagramTasks = << >>
    /\ uniqueTasks = << >>
    /\ readFailed = FALSE
    /\ ExecIdle
    /\ SiteIdle

InitPlan ==
    /\ docFiles \in SeqsUpTo(PlanFileSet, MaxFiles)
    /\ PlanStart

InitExtract ==
    /\ docFiles \in { <<f>> : f \in ExtractFileSet }
    /\ PlanStart

\* renderer.js 80-81: the await of fs.readFile is in no try, so a failure
\* leaves the loop and rejects the call; the other files are not read.
ReadFailure_GoOn == [pc |-> "scan", skip |-> 1]
ReadFailure == [pc |-> "rejected", skip |-> 0]

\* renderer.js 81: fs.readFile rejects, and with it the call.
ReadFails ==
    /\ planPc = "scan"
    /\ fileIdx <= Len(docFiles)
    /\ readFailed' = TRUE
    /\ planPc' = ReadFailure.pc
    /\ fileIdx' = fileIdx + ReadFailure.skip
    /\ fnState' = IF ReadFailure.pc = "rejected" THEN "rejected" ELSE fnState
    /\ envFailed' = (ReadFailure.pc = "rejected")
    /\ UNCHANGED <<docFiles, defaultLocale, outputSuffix, outputFormat,
                   diagramTasks, uniqueTasks>>
    /\ UNCHANGED <<concurrency, numTasks, pass, pc, outcome, queue, activeCount,
                   outputs, tempFiles, renderedCount, skippedCount, summary,
                   existedAtStart, execCount, execRunning, wroteTemp,
                   unlinkAttempted, unlinkFailed, peak, clobbered>>
    /\ UNCHANGED siteVars

\* renderer.js 83-86: a file with the draft marker is skipped.
SkipDraft ==
    /\ planPc = "scan"
    /\ fileIdx <= Len(docFiles)
    /\ DraftMarked(docFiles[fileIdx].content)
    /\ fileIdx' = fileIdx + 1
    /\ UNCHANGED <<docFiles, defaultLocale, outputSuffix, outputFormat, planPc,
                   diagramTasks, uniqueTasks, readFailed>>
    /\ UNCHANGED <<execVars, siteVars>>

\* renderer.js 88-133: the blocks of one file are queued.
ScanFile ==
    /\ planPc = "scan"
    /\ fileIdx <= Len(docFiles)
    /\ ~DraftMarked(docFiles[fileIdx].content)
    /\ diagramTasks' = diagramTasks \o FileTasks(docFiles[fileIdx])
    /\ fileIdx' = fileIdx + 1
    /\ UNCHANGED <<docFiles, defaultLocale, outputSuffix, outputFormat, planPc,
                   uniqueTasks, readFailed>>
    /\ UNCHANGED <<execVars, siteVars>>

\* renderer.js 136-144: the loop is over, the tasks are deduplicated.
DedupTasks ==
    /\ planPc = "scan"
    /\ fileIdx > Len(docFiles)
    /\ uniqueTasks' = Dedup(diagramTasks)
    /\ planned' = planned \cup { Dedup(diagramTasks)[k].filename :
                                    k \in 1..Len(Dedup(diagramTasks)) }
    /\ planPc' = "done"
    /\ UNCHANGED <<docFiles, defaultLocale, outputSuffix, outputFormat, fileIdx,
                   diagramTasks, readFailed>>
    /\ UNCHANGED <<execVars, loadVars, remarkVars, callLog, storeVars>>

NextPlan ==
    \/ ReadFails
    \/ SkipDraft
    \/ ScanFile
    \/ DedupTasks

SpecPlan == InitPlan /\ [][NextPlan]_vars
SpecExtract == InitExtract /\ [][NextPlan]_vars

\* ======================================================================
\* A whole pass (renderer.js 34-195): the planning, then the execution of
\* the planned tasks, the files on disk named by their paths.
\* ======================================================================

LightSuffix == <<"-", "light">>
DarkSuffix == <<"-", "dark">>

BlockId(id, body) == Block(Header(3, << <<"id:", "sp">> \o id >>), body)

PlainFile(path, blocks) == [path |-> path, content |-> FileContent(<< >>, blocks)]
DraftFile(path, blocks) ==
    [path |-> path, content |-> FileContent(Line(<<"draft:", "sp", "true">>), blocks)]

\* The content of a site: no file; one file whose three identities name one
\* output file; two files in two locales; a draft and a file.
PassDocMenu ==
    { << >>,
      << PlainFile(<<"docs", "/", "f.md">>,
            << BlockId(<<"k">>, <<"g">>),
               BlockId(<<"x", "/", "..", "/", "k">>, <<"k">>),
               BlockId(<<"p", "/", "..", "/", "k">>, <<"g">>) >>) >>,
      << PlainFile(<<"docs", "/", "f.md">>, << Block(<< >>, <<"g">>) >>),
         PlainFile(<<"i18n", "/", "p", "-", "e", "/", "docs", "/", "f.md">>,
            << BlockIdX(<<"k">>) >>) >>,
      << DraftFile(<<"docs", "/", "f.md">>, << BlockIdX(<<"g">>) >>),
         PlainFile(<<"i18n", "/", "e", "/", "docs", "/", "f.md">>,
            << Block(<< >>, <<"g">>) >>) >> }

\* renderer.js 34-78: the call has started, nothing is planned yet.
PassStart(suffix) ==
    /\ defaultLocale = <<"e">>
    /\ outputSuffix = suffix
    /\ outputFormat = <<"svg">>
    /\ planPc = "scan"
    /\ fileIdx = 1
    /\ diagramTasks = << >>
    /\ uniqueTasks = << >>
    /\ readFailed = FALSE

InitPass ==
    /\ docFiles \in PassDocMenu
    /\ PassStart(LightSuffix)
    /\ concurrency \in 1..MaxConcurrency
    /\ numTasks = 0
    /\ pass = 1
    /\ fnState = "running"
    /\ envFailed = FALSE
    /\ pc = [t \in AllTasks |-> "idle"]
    /\ outcome = [t \in AllTasks |-> "none"]
    /\ queue = << >>
    /\ activeCount = 0
    /\ outputs = {}
    /\ tempFiles = {}
    /\ renderedCount = 0
    /\ skippedCount = 0
    /\ summary = {}
    /\ existedAtStart = {}
    /\ execCount = [t \in AllTasks |-> 0]
    /\ execRunning = {}
    /\ wroteTemp = {}
    /\ unlinkAttempted = {}
    /\ unlinkFailed = {}
    /\ peak = 0
    /\ clobbered = {}
    /\ SiteIdle

\* renderer.js 146-189: the planned tasks are handed to the pool.
CallPlanned ==
    /\ planPc = "done"
    /\ fnState = "running"
    /\ Len(uniqueTasks) <= NumTasks
    /\ planPc' = "exec"
    /\ numTasks' = Len(uniqueTasks)
    /\ Enqueue(Len(uniqueTasks))
    /\ UNCHANGED <<docFiles, defaultLocale, outputSuffix, outputFormat, fileIdx,
                   diagramTasks, uniqueTasks, readFailed>>
    /\ UNCHANGED <<concurrency, pass, envFailed, outcome, outputs, tempFiles,
                   renderedCount, skippedCount, existedAtStart, execCount,
                   execRunning, wroteTemp, unlinkAttempted, unlinkFailed, peak,
                   clobbered>>
    /\ UNCHANGED siteVars

NextPass ==
    \/ ReadFails
    \/ SkipDraft
    \/ ScanFile
    \/ DedupTasks
    \/ CallPlanned
    \/ \E t \in AllTasks : AccessDone(t)
    \/ \E t \in AllTasks : WriteOk(t)
    \/ \E t \in AllTasks : WriteFails(t)
    \/ \E t \in AllTasks : ExecDone(t)
    \/ \E t \in AllTasks : UnlinkDone(t)

SpecPass == InitPass /\ [][NextPass]_vars

\* ======================================================================
\* The plugin (index.js): the themes to render, and loadContent, which
\* resolves the base style config and calls renderAllMermaidDiagrams once
\* per theme, one call after the other.
\* ======================================================================

\* index.js 38-40: themeConfig.mermaid.theme, with its defaults.
LightTheme == "neutral"
DarkTheme == "dark"

\* index.js 42-67
ThemesToRender_LightOnly(ds, dm) ==
    << [themeName |-> LightTheme, outputSuffix |-> LightSuffix] >>
ThemesToRender(ds, dm) ==
    IF ds
    THEN << [themeName |-> IF dm = "dark" THEN DarkTheme ELSE LightTheme,
             outputSuffix |-> IF dm = "dark" THEN DarkSuffix ELSE LightSuffix] >>
    ELSE << [themeName |-> LightTheme, outputSuffix |-> LightSuffix],
            [themeName |-> DarkTheme, outputSuffix |-> DarkSuffix] >>

Themes == ThemesToRender(disableSwitch, defaultMode)

\* index.js 111-144: the path handed to the renderer.  exists: fs.access of
\* the configured file succeeds; hasObj: themeConfig.mermaid.config is an
\* object; wrote: the temp config file could be written.
ConfigPath_Configured(exists, hasObj, wrote) ==
    IF ~exists /\ hasObj /\ wrote THEN "temp" ELSE "physical"
ConfigPath(exists, hasObj, wrote) ==
    IF exists THEN "physical"
    ELSE IF hasObj /\ wrote THEN "temp"
    ELSE "none"

\* The content of the site of SpecLoad.
LoadDocMenu ==
    { << PlainFile(<<"docs", "/", "f.md">>, << Block(<< >>, <<"g">>) >>),
         PlainFile(<<"i18n", "/", "p", "-", "e", "/", "docs", "/", "f.md">>,
            << BlockIdX(<<"k">>) >>) >>,
      << DraftFile(<<"docs", "/", "f.md">>, << BlockIdX(<<"g">>) >>),
         PlainFile(<<"i18n", "/", "e", "/", "docs", "/", "f.md">>,
            << BlockOff(<<"k">>), Block(<< >>, <<"g">>) >>) >> }

\* The state before the first call of loadContent, the site's files apart.
LoadStart ==
    /\ defaultLocale = <<"e">>
    /\ outputSuffix = << >>
    /\ outputFormat = <<"svg">>
    /\ planPc = "idle"
    /\ fileIdx = 1
    /\ diagramTasks = << >>
    /\ uniqueTasks = << >>
    /\ readFailed = FALSE
    /\ concurrency \in 1..MaxConcurrency
    /\ numTasks = 0
    /\ pass = 0
    /\ fnState = "idle"
    /\ envFailed = FALSE
    /\ pc = [t \in AllTasks |-> "idle"]
    /\ outcome = [t \in AllTasks |-> "none"]
    /\ queue = << >>
    /\ activeCount = 0
    /\ outputs = {}
    /\ tempFiles = {}
    /\ renderedCount = 0
    /\ skippedCount = 0
    /\ summary = {}
    /\ existedAtStart = {}
    /\ execCount = [t \in AllTasks |-> 0]
    /\ execRunning = {}
    /\ wroteTemp = {}
    /\ unlinkAttempted = {}
    /\ unlinkFailed = {}
    /\ peak = 0
    /\ clobbered = {}
    /\ nodeEnv \in {"production", "development"}
    /\ staticRendered \in BOOLEAN
    /\ disableSwitch \in BOOLEAN
    /\ defaultMode \in {"light", "dark"}
    /\ configFileExists \in BOOLEAN
    /\ hasConfigObject \in BOOLEAN
    /\ loadPc = "idle"
    /\ themeIdx = 0
    /\ themeConfigPath = "none"
    /\ didCreateTempConfig = FALSE
    /\ tempConfigOnDisk = FALSE
    /\ passLog = << >>
    /\ RemarkIdle
    /\ HostIdle

InitLoad ==
    /\ docFiles \in LoadDocMenu
    /\ LoadStart

\* index.js 92-105: loadContent goes on to the passes in a production build
\* whose MERMAID_STATIC_RENDERED is not 'true'.
RunsPasses_EnvOnly(env, flag) == env = "production"
RunsPasses(env, flag) == env = "production" /\ ~flag

\* What an ended call of loadContent leaves in the log: how it ended, the
\* calls of renderAllMermaidDiagrams it made and how many of them returned,
\* whether it wrote a temp config and whether it tried to delete one, and
\* MERMAID_STATIC_RENDERED before and after it.
CallEntry(result, flagAfter, tried) ==
    [ result |-> result,
      created |-> didCreateTempConfig,
      unlinkTried |-> tried,
      passes |-> Len(passLog),
      returned |-> IF passLog = << >> THEN 0
                   ELSE IF fnState = "returned" THEN Len(passLog)
                   ELSE Len(passLog) - 1,
      flagBefore |-> staticRendered,
      flagAfter |-> flagAfter ]

\* index.js 92-105: not a production build, or the rendering was done
\* already: loadContent returns at once.
LoadSkip ==
    /\ loadPc = "idle"
    /\ ~RunsPasses(nodeEnv, staticRendered)
    /\ loadPc' = "skipped"
    /\ callLog' = Append(callLog, CallEntry("skipped", staticRendered, FALSE))
    /\ UNCHANGED <<planned, storeVars>>
    /\ UNCHANGED <<nodeEnv, staticRendered, disableSwitch, defaultMode,
                   configFileExists, hasConfigObject, themeIdx, themeConfigPath,
                   didCreateTempConfig, tempConfigOnDisk, passLog>>
    /\ UNCHANGED <<execVars, planVars, remarkVars>>

\* index.js 107-158: the base style config is resolved.
ResolveConfig ==
    /\ loadPc = "idle"
    /\ RunsPasses(nodeEnv, staticRendered)
    /\ UNCHANGED hostVars
    /\ \E wrote \in BOOLEAN :
          /\ wrote => (~configFileExists /\ hasConfigObject)
          /\ themeConfigPath' = ConfigPath(configFileExists, hasConfigObject, wrote)
          /\ didCreateTempConfig' = wrote
          /\ tempConfigOnDisk' = (tempConfigOnDisk \/ wrote)
    /\ loadPc' = "passes"
    /\ UNCHANGED <<nodeEnv, staticRendered, disableSwitch, defaultMode,
                   configFileExists, hasConfigObject, themeIdx, passLog>>
    /\ UNCHANGED <<execVars, planVars, remarkVars>>

\* The pass that has just ended, with the number of its failed invocations.
PassEnded(log) ==
    IF log = << >> THEN log
    ELSE [log EXCEPT ![Len(log)].failed = Cardinality(Failed)]

\* index.js 160-171 and renderer.js 34-78: the next theme's call of
\* renderAllMermaidDiagrams starts, the one before having returned.
StartPass ==
    /\ loadPc = "passes"
    /\ themeIdx < Len(Themes)
    /\ themeIdx = 0 \/ fnState = "returned"
    /\ pass < MaxPasses
    /\ themeIdx' = themeIdx + 1
    /\ passLog' = Append(PassEnded(passLog),
                         [themeName |-> Themes[themeIdx + 1].themeName,
                          outputSuffix |-> Themes[themeIdx + 1].outputSuffix,
                          themeConfigPath |-> themeConfigPath,
                          failed |-> 0])
    /\ outputSuffix' = Themes[themeIdx + 1].outputSuffix
    /\ planPc' = "scan"
    /\ fileIdx' = 1
    /\ diagramTasks' = << >>
    /\ uniqueTasks' = << >>
    /\ readFailed' = FALSE
    /\ pass' = pass + 1
    /\ numTasks' = 0
    /\ fnState' = "running"
    /\ envFailed' = FALSE
    /\ summary' = {}
    /\ pc' = [t \in AllTasks |-> "idle"]
    /\ queue' = << >>
    /\ activeCount' = 0
    /\ ResetHistory
    /\ UNCHANGED <<docFiles, defaultLocale, outputFormat>>
    /\ UNCHANGED <<concurrency, outputs, tempFiles, execRunning>>
    /\ UNCHANGED <<nodeEnv, staticRendered, disableSwitch, defaultMode,
                   configFileExists, hasConfigObject, loadPc, themeConfigPath,
                   didCreateTempConfig, tempConfigOnDisk>>
    /\ UNCHANGED <<remarkVars, hostVars>>

\* index.js 173: the finally block deletes the file at themeConfigPath when
\* loadContent wrote it itself.
UnlinksConfig_Any(did, path) == path # "none"
UnlinksConfig(did, path) == did /\ path # "none"

\* index.js 172-184: the finally block; a failure of the deletion is logged.
\* The call ends with the given result and flag.
UnlinkTempConfig(result, flagAfter) ==
    \E ok \in BOOLEAN :
       LET tried == UnlinksConfig(didCreateTempConfig, themeConfigPath) IN
       /\ ~tried => ok
       /\ tempConfigOnDisk' = IF tried /\ ok /\ themeConfigPath = "temp" THEN FALSE
                               ELSE tempConfigOnDisk
       /\ configFileExists' = IF tried /\ ok /\ themeConfigPath = "physical" THEN FALSE
                               ELSE configFileExists
       /\ callLog' = Append(callLog, CallEntry(result, flagAfter, tried))

\* index.js 160-187: the last call has returned; the finally block runs and
\* the run is marked as done.
LoadFinish ==
    /\ loadPc = "passes"
    /\ themeIdx = Len(Themes)
    /\ fnState = "returned"
    /\ UnlinkTempConfig("done", TRUE)
    /\ staticRendered' = TRUE
    /\ loadPc' = "done"
    /\ UNCHANGED <<planned, storeVars>>
    /\ passLog' = PassEnded(passLog)
    /\ UNCHANGED <<nodeEnv, disableSwitch, defaultMode,
                   hasConfigObject, themeIdx, themeConfigPath, didCreateTempConfig>>
    /\ UNCHANGED <<execVars, planVars, remarkVars>>

\* index.js 160-184: a call has rejected; the for loop is left, the finally
\* block runs and loadContent rejects.
LoadRejects ==
    /\ loadPc = "passes"
    /\ fnState = "rejected"
    /\ UnlinkTempConfig("rejected", staticRendered)
    /\ loadPc' = "rejected"
    /\ UNCHANGED <<planned, storeVars>>
    /\ passLog' = PassEnded(passLog)
    /\ UNCHANGED <<nodeEnv, staticRendered, disableSwitch, defaultMode,
                   hasConfigObject, themeIdx, themeConfigPath,
                   didCreateTempConfig>>
    /\ UNCHANGED <<execVars, planVars, remarkVars>>

NextLoad ==
    \/ LoadSkip
    \/ ResolveConfig
    \/ StartPass
    \/ LoadFinish
    \/ LoadRejects
    \/ ReadFails
    \/ SkipDraft
    \/ ScanFile
    \/ DedupTasks
    \/ CallPlanned
    \/ \E t \in AllTasks : AccessDone(t)
    \/ \E t \in AllTasks : WriteOk(t)
    \/ \E t \in AllTasks : WriteFails(t)
    \/ \E t \in AllTasks : ExecDone(t)
    \/ \E t \in AllTasks : UnlinkDone(t)

SpecLoad == InitLoad /\ [][NextLoad]_vars

\* ---- loadContent called again and again in one process ----

MaxCalls == 3

\* The site of SpecRuns: a draft and a file with one diagram.
RunsDocs ==
    << DraftFile(<<"docs", "/", "d.md">>, << BlockIdX(<<"g">>) >>),
       PlainFile(<<"docs", "/", "f.md">>, << Block(<< >>, <<"k">>) >>) >>

InitRuns ==
    /\ docFiles = RunsDocs
    /\ LoadStart
    /\ concurrency = 1
    /\ ~configFileExists
    /\ ~hasConfigObject

\* index.js 91: loadContent is called again, the call before having ended
\* and its invocations having settled.  The process is the same: its
\* environment and the files on disk are as the call before left them.
LoadAgain ==
    /\ loadPc \in {"skipped", "done", "rejected"}
    /\ Len(callLog) < MaxCalls
    /\ PoolIdle
    /\ loadPc' = "idle"
    /\ themeIdx' = 0
    /\ themeConfigPath' = "none"
    /\ didCreateTempConfig' = FALSE
    /\ passLog' = << >>
    /\ pass' = 0
    /\ fnState' = "idle"
    /\ planPc' = "idle"
    /\ UNCHANGED <<nodeEnv, staticRendered, disableSwitch, defaultMode,
                   configFileExists, hasConfigObject, tempConfigOnDisk>>
    /\ UNCHANGED <<docFiles, defaultLocale, outputSuffix, outputFormat, fileIdx,
                   diagramTasks, uniqueTasks, readFailed>>
    /\ UNCHANGED <<concurrency, numTasks, envFailed, pc, outcome, queue,
                   activeCount, outputs, tempFiles, renderedCount, skippedCount,
                   summary, existedAtStart, execCount, execRunning, wroteTemp,
                   unlinkAttempted, unlinkFailed, peak, clobbered>>
    /\ UNCHANGED <<remarkVars, hostVars>>

NextRuns ==
    \/ NextLoad
    \/ LoadAgain

SpecRuns == InitRuns /\ [][NextRuns]_vars

\* ======================================================================
\* The remark transformer (remark.js): every mermaid code node of a tree is
\* left to the client-side renderer or replaced by a figure.
\* ======================================================================

\* index.js 70-78: the options the plugin puts in the store, which the
\* transformer takes when it is created (remark.js 20-27).  null is "null",
\* which is what a template literal makes of it.
StoreOptions(ds, dm) ==
    [ defaultLocale |-> <<"e">>,
      outputFormat |-> <<"svg">>,
      outputSuffixes |-> [light |-> LightSuffix, dark |-> DarkSuffix],
      renderDualThemes |-> ~ds,
      defaultThemeSuffix |-> IF ds THEN (IF dm = "dark" THEN DarkSuffix ELSE LightSuffix)
                             ELSE <<"null">> ]

\* The nodes of a tree: a code node, and the figure that replaces one.
\* images are the filenames of the img children, child the values of the
\* code children.
CodeNode(lang, value) ==
    [type |-> "code", lang |-> lang, value |-> value,
     id |-> << >>, images |-> << >>, child |-> << >>]
FigureNode(id, images, child) ==
    [type |-> "figure", lang |-> "", value |-> << >>,
     id |-> id, images |-> images, child |-> child]

\* remark.js 54: value.replace(metadataBlockRegex, '').trim()
RemarkCode(value) == Trim(StripMetadata(value))

\* remark.js 47-61
RemarkId(value) ==
    IF IdGroup(MetadataContent(value)) # << >>
    THEN Trim(IdGroup(MetadataContent(value)))
    ELSE createHash(RemarkCode(value))

\* remark.js 95-96
RemarkLocale(path, opts) ==
    IF LocaleGroup(path) # << >> THEN LocaleGroup(path) ELSE opts.defaultLocale

\* remark.js 93-176: the children of the figure.
RemarkImages(value, path, opts) ==
    IF opts.renderDualThemes
    THEN << Filename(RemarkId(value), RemarkLocale(path, opts),
                     opts.outputSuffixes.light, opts.outputFormat),
            Filename(RemarkId(value), RemarkLocale(path, opts),
                     opts.outputSuffixes.dark, opts.outputFormat) >>
    ELSE << Filename(RemarkId(value), RemarkLocale(path, opts),
                     opts.defaultThemeSuffix, opts.outputFormat) >>

\* remark.js 42: the header holds the marker, the node is left in place.
LeftToClient(value) == PrerenderOff(MetadataContent(value))

\* remark.js 32-205 for one node.
TransformNode(node, path, opts, env) ==
    IF node.type # "code" \/ node.lang # "mermaid" THEN node
    ELSE IF LeftToClient(node.value)
         THEN [node EXCEPT !.value = RemarkCode(node.value)]
    ELSE IF env = "production"
         THEN FigureNode(RemarkId(node.value),
                         RemarkImages(node.value, path, opts), << >>)
    ELSE FigureNode(RemarkId(node.value), << >>, << RemarkCode(node.value) >>)

\* The value of a code node: the text between the fences.
CodeValue(header, body) == header \o body

RemarkTreeSet ==
    { << CodeNode("mermaid", CodeValue(h, b)) >> : h \in HeaderSet, b \in BodyMenu }
    \cup { << CodeNode("js", b), CodeNode("mermaid", b) >> : b \in BodyMenu }

RemarkPathMenu ==
    { <<"docs", "/", "f.md">>,
      <<"i18n", "/", "p", "-", "e", "/", "docs", "/", "f.md">> }

InitRemark ==
    /\ PlanIdle
    /\ ExecIdle
    /\ LoadIdleBut
    /\ HostIdle
    /\ nodeEnv \in {"production", "development"}
    /\ remarkOpts \in { StoreOptions(ds, dm) : ds \in BOOLEAN, dm \in {"light", "dark"} }
    /\ filePath \in RemarkPathMenu
    /\ tree \in RemarkTreeSet
    /\ sourceTree = tree
    /\ remarkPc = "ready"

\* remark.js 29-211: the transformer visits the tree and splices the
\* replacements in, each at the place of the node it replaces.
Transform ==
    /\ remarkPc = "ready"
    /\ tree' = [i \in 1..Len(tree) |->
                   TransformNode(tree[i], filePath, remarkOpts, nodeEnv)]
    /\ remarkPc' = "done"
    /\ UNCHANGED <<remarkOpts, filePath, sourceTree>>
    /\ UNCHANGED <<execVars, planVars, loadVars, hostVars>>

NextRemark == Transform

SpecRemark == InitRemark /\ [][NextRemark]_vars

\* ---- the store between the plugin and the transformers ----

\* store.js 27-29: this.options = { ...this.options, ...options }
StoreSet(old, options) ==
    [k \in DOMAIN old \cup DOMAIN options |->
        IF k \in DOMAIN options THEN options[k] ELSE old[k]]

\* store.js 30-32
StoreGet(options) == options

InitStore ==
    /\ PlanIdle
    /\ ExecIdle
    /\ nodeEnv = "production"
    /\ staticRendered = FALSE
    /\ disableSwitch \in BOOLEAN
    /\ defaultMode \in {"light", "dark"}
    /\ configFileExists = FALSE
    /\ hasConfigObject = FALSE
    /\ loadPc = "idle"
    /\ themeIdx = 0
    /\ themeConfigPath = "none"
    /\ didCreateTempConfig = FALSE
    /\ tempConfigOnDisk = FALSE
    /\ passLog = << >>
    /\ RemarkIdle
    /\ HostIdle

\* index.js 11-78: the plugin function runs and puts the site's options in
\* the store.
PluginInit ==
    /\ stored = << >>
    /\ store' = StoreSet(store, StoreOptions(disableSwitch, defaultMode))
    /\ stored' = Append(stored, [ given |-> StoreOptions(disableSwitch, defaultMode),
                                  before |-> store ])
    /\ UNCHANGED <<instances, callLog, planned>>
    /\ UNCHANGED <<execVars, planVars, loadVars, remarkVars>>

\* remark.js 18-27: the factory is called; the instance takes the options
\* of the store as they are at that moment and keeps them.
CreateTransformer(i) ==
    /\ instances[i] = << >>
    /\ instances' = [instances EXCEPT ![i] = StoreGet(store)]
    /\ UNCHANGED <<store, stored, callLog, planned>>
    /\ UNCHANGED <<execVars, planVars, loadVars, remarkVars>>

NextStore ==
    \/ PluginInit
    \/ \E i \in 1..NumInstances : CreateTransformer(i)

SpecStore == InitStore /\ [][NextStore]_vars

\* ---- one build: the passes of loadContent, then the transformer ----

\* The markdown parser, for the code nodes of a file: the value of a fenced
\* code block is the lines between its fences, each without the indentation
\* of the opening fence (up to that many spaces are removed from a line).
FenceIndent(content, open) ==
    Max({ k \in 0..(open - 1) :
            \A j \in (open - k)..(open - 1) : content[j] = "sp" })

DropSp(s, n) ==
    LET k == Max({ m \in 0..Min({n, Len(s)}) : \A j \in 1..m : s[j] = "sp" }) IN
    SubSeq(s, k + 1, Len(s))

RECURSIVE Dedent(_, _)
Dedent(s, n) ==
    LET e == IndexOf(s, <<"nl">>, 1) IN
    IF e = 0 THEN DropSp(s, n)
    ELSE DropSp(SubSeq(s, 1, e - 1), n) \o <<"nl">>
            \o Dedent(SubSeq(s, e + 1, Len(s)), n)

\* The text between the fences, without the line of the closing fence.
FencedLines(inner) ==
    LET S == { i \in 1..Len(inner) : inner[i] = "nl" } IN
    IF S = {} THEN << >> ELSE SubSeq(inner, 1, Max(S) - 1)

RECURSIVE ParseCode(_, _)
ParseCode(content, from) ==
    LET open == IndexOf(content, <<"fence:mermaid">>, from) IN
    IF open = 0 THEN << >>
    ELSE LET close == IndexOf(content, <<"fence">>, open + 1) IN
         IF close = 0 THEN << >>
         ELSE << CodeNode("mermaid",
                    Dedent(FencedLines(SubSeq(content, open + 2, close - 1)),
                           FenceIndent(content, open))) >>
                 \o ParseCode(content, close + 1)

\* A block as it stands in a list item or an admonition: every line of it
\* after n spaces.
Indented(block, n) ==
    LET pad == [i \in 1..n |-> "sp"] IN
    pad \o Flatten([i \in 1..Len(block) |->
                      IF block[i] = "nl" /\ i < Len(block)
                      THEN <<"nl">> \o pad ELSE <<block[i]>>])

\* siteDir, the directory of the site.
SiteDirMenu ==
    { <<"/", "srv", "/", "site">>,
      <<"/", "srv", "/", "i18n", "/", "site">> }

\* file.path of the transformer and the file of globby are absolute.
AbsolutePath(siteDir, relativePath) == siteDir \o <<"/">> \o relativePath

TwoLines == <<"g", "nl", "k">>

\* The content of the site of SpecBuild.
BuildDocMenu ==
    { << PlainFile(<<"docs", "/", "f.md">>, << Block(<< >>, TwoLines) >>) >>,
      << PlainFile(<<"docs", "/", "f.md">>,
            << Indented(Block(<< >>, TwoLines), 2) >>) >>,
      << PlainFile(<<"docs", "/", "f.md">>,
            << Indented(BlockIdX(TwoLines), 2), BlockOff(<<"k">>) >>) >>,
      << PlainFile(<<"i18n", "/", "p", "-", "e", "/", "docs", "/", "f.md">>,
            << BlockIdX(<<"g">>), Block(<< >>, <<"g">>), BlockIdX(<<"k">>) >>) >>,
      << DraftFile(<<"docs", "/", "d.md">>, << Block(<< >>, <<"g">>) >>),
         PlainFile(<<"i18n", "/", "e", "/", "docs", "/", "f.md">>,
            << Block(<< >>, <<"g">>) >>) >> }

InitBuild ==
    /\ docFiles \in BuildDocMenu
    /\ LoadStart
    /\ nodeEnv = "production"
    /\ concurrency = 1
    /\ ~configFileExists
    /\ ~hasConfigObject

\* remark.js 18-211 in the build: loadContent has ended, the transformer is
\* created with the options of the store and is given the tree of one of
\* the site's files.
TransformFile ==
    /\ loadPc \in {"done", "skipped"}
    /\ remarkPc = "idle"
    /\ \E i \in 1..Len(docFiles), sd \in SiteDirMenu :
          LET opts == StoreOptions(disableSwitch, defaultMode)
              path == AbsolutePath(sd, docFiles[i].path)
              nodes == ParseCode(docFiles[i].content, 1) IN
          /\ remarkOpts' = opts
          /\ filePath' = path
          /\ sourceTree' = nodes
          /\ tree' = [k \in 1..Len(nodes) |-> TransformNode(nodes[k], path, opts, nodeEnv)]
    /\ remarkPc' = "done"
    /\ UNCHANGED <<execVars, planVars, loadVars, hostVars>>

NextBuild ==
    \/ NextLoad
    \/ TransformFile

SpecBuild == InitBuild /\ [][NextBuild]_vars

\* ---- claims about the execution of a pass ----


\* C1: in every reachable state the number of tasks admitted by the pool and
\* not yet finished, and so the number (and the peak) of simultaneous renderer
\* invocations, is at most the concurrency limit.
ConcurrencyBound ==
    /\ Cardinality(InFlight) <= concurrency
    /\ Cardinality(execRunning) <= concurrency
    /\ peak <= concurrency
    /\ activeCount = Cardinality(InFlight)

\* C1 witness: the pool is full with two or more renderer invocations running
\* at once while another task waits for admission.
ConcurrencyBoundWitness ==
    /\ concurrency >= 2
    /\ Cardinality(execRunning) = concurrency
    /\ queue # << >>

\* C2 (as claimed): over N tasks with no output present, when exactly one
\* renderer invocation fails (and nothing else does), the call returns a
\* result with failed = 1 and rendered = N-1, and no temp file remains.
FailureIsolation ==
    ( /\ pass >= 1 /\ ~envFailed /\ Drained
      /\ existedAtStart \cap TaskIds = {}
      /\ Cardinality(Failed) = 1 /\ Rejected = {} /\ unlinkFailed = {} )
    => /\ fnState = "returned"
       /\ summary # {}
       /\ \A s \in summary :
             /\ "failed" \in DOMAIN s
             /\ s.failed = 1
             /\ s.rendered = numTasks - 1
       /\ tempFiles \cap TaskIds = {}

\* C3: a pass that starts with the output file of every one of its N tasks
\* present invokes the renderer zero times, writes no temp file, and ends
\* with rendered = 0 and skipped = N.
CacheRespected ==
    (pass >= 1 /\ ~envFailed /\ existedAtStart = TaskIds)
    => /\ \A t \in AllTasks : execCount[t] = 0
       /\ wroteTemp = {}
       /\ renderedCount = 0
       /\ fnState # "rejected"
       /\ Drained => /\ fnState = "returned"
                     /\ skippedCount = numTasks
                     /\ summary = {Summary(0, numTasks)}

\* C3 witness: a second pass over two or more tasks has returned, every
\* output having been there when it started.
CacheRespectedWitness ==
    /\ pass >= 2 /\ ~envFailed /\ numTasks >= 2
    /\ existedAtStart = TaskIds
    /\ fnState = "returned"
    /\ skippedCount = numTasks

\* C4: a task that wrote its temp file attempts to delete it, after its
\* renderer invocation has ended and whatever that invocation's result; so a
\* finished task whose deletion did not fail has no temp file, and once every
\* task of the pass has ended with no deletion failed, no temp file written
\* by the pass exists.
TempFileCleanup ==
    /\ \A t \in AllTasks :
          /\ (t \in wroteTemp /\ pc[t] = "done") => t \in unlinkAttempted
          /\ t \in unlinkAttempted =>
                (t \in wroteTemp /\ t \notin execRunning /\ pc[t] \in {"unlink", "done"})
          /\ (t \in wroteTemp /\ pc[t] = "done" /\ t \notin unlinkFailed)
                => t \notin tempFiles
    /\ (Drained /\ pass >= 1 /\ unlinkFailed = {}) => wroteTemp \cap tempFiles = {}
    /\ (fnState = "returned" /\ unlinkFailed = {}) => wroteTemp \cap tempFiles = {}

\* C4 witness: the pass has returned; one task's invocation failed, another's
\* succeeded, both wrote their temp file and neither file is left.
TempFileCleanupWitness ==
    /\ fnState = "returned"
    /\ \E t, u \in TaskIds :
          /\ outcome[t] = "failed" /\ outcome[u] = "rendered"
          /\ {t, u} \subseteq wroteTemp
          /\ {t, u} \cap tempFiles = {}

\* C5 (as claimed): the call rejects only for a failure of the environment
\* (content file, output directory, pool), never for a failure in a step of
\* one task.
FailurePropagation ==
    fnState = "rejected" => envFailed

\* C6 (as claimed): when the call settles, by returning or by rejecting, no
\* task of the pass is in flight or waiting for admission.
PoolDrains ==
    Settled => (InFlight = {} /\ queue = << >>)

\* C7 (as claimed): a pass that reached task execution ends with the summary
\* emitted.
SummaryAlways ==
    (Settled /\ ~envFailed) => summary # {}

\* C8 (as claimed): every task is invoked at most once and falls in exactly
\* one class; the summary reports the three counts rendered, skipped and
\* failed, and they add up to the number of tasks.
RECURSIVE SumFields(_, _)
SumFields(s, names) ==
    IF names = {} THEN 0
    ELSE LET f == CHOOSE x \in names : TRUE IN s[f] + SumFields(s, names \ {f})

OutcomeAccounting ==
    fnState = "returned" =>
       /\ \A t \in TaskIds :
             execCount[t] <= 1 /\ outcome[t] \in {"rendered", "skipped", "failed"}
       /\ \A s \in summary :
             /\ DOMAIN s = {"rendered", "skipped", "failed"}
             /\ SumFields(s, DOMAIN s) = numTasks

\* What the code does keep of C8: each task is invoked at most once, ends in
\* one class, and the two reported counts are the sizes of their classes.
OutcomeAccountingOfCode ==
    /\ \A t \in AllTasks : execCount[t] <= 1
    /\ renderedCount = Cardinality({ t \in TaskIds : outcome[t] = "rendered" })
    /\ skippedCount = Cardinality({ t \in TaskIds : outcome[t] = "skipped" })
    /\ fnState = "returned" =>
          /\ summary = {Summary(renderedCount, skippedCount)}
          /\ renderedCount + skippedCount + Cardinality(Failed) = numTasks

\* ---- claims about the planning of a pass ----

TaskIndices == 1..Len(diagramTasks)

\* The distinct (identity, locale) pairs of the queued blocks; the pass has
\* one theme variant.
Triples == { <<diagramTasks[i].id, diagramTasks[i].locale>> : i \in TaskIndices }

\* No two blocks with different bodies have the same identity.
NoIdentityCollision ==
    \A i, j \in TaskIndices :
       diagramTasks[i].id = diagramTasks[j].id
          => diagramTasks[i].mermaidCode = diagramTasks[j].mermaidCode

\* C9 (as claimed): after deduplication the number of tasks is at most the
\* number of distinct (identity, locale, variant) triples of the non-skipped
\* blocks, and equal to it when no two blocks collide on an identity.
DedupInvariant ==
    planPc = "done" =>
       /\ Len(uniqueTasks) <= Cardinality(Triples)
       /\ NoIdentityCollision => Len(uniqueTasks) = Cardinality(Triples)

\* What the code does keep of C9: one task per distinct filename, so never
\* more tasks than triples, and as many when no identity or no locale holds
\* a "-" (the filename then determines the pair).
DedupInvariantOfCode ==
    planPc = "done" =>
       /\ Len(uniqueTasks) = Cardinality({ diagramTasks[i].filename : i \in TaskIndices })
       /\ Len(uniqueTasks) <= Cardinality(Triples)
       /\ ( \/ \A i \in TaskIndices : IndexOf(diagramTasks[i].id, <<"-">>, 1) = 0
            \/ \A i \in TaskIndices : IndexOf(diagramTasks[i].locale, <<"-">>, 1) = 0 )
          => Len(uniqueTasks) = Cardinality(Triples)

\* The header of a block as the documentation describes it: the block opens
\* with a line of three or more dashes, and the header is the lines up to the
\* next such line.
RECURSIVE SplitLines(_)
SplitLines(s) ==
    LET n == IndexOf(s, <<"nl">>, 1) IN
    IF n = 0 THEN <<s>>
    ELSE <<SubSeq(s, 1, n - 1)>> \o SplitLines(SubSeq(s, n + 1, Len(s)))

IsDelimiterLine(l) ==
    /\ Len(Trim(l)) >= 3
    /\ \A i \in 1..Len(Trim(l)) : Trim(l)[i] = "-"

DocHeaderLines(block) ==
    LET lines == SplitLines(StripFences(block))
        filled == { i \in 1..Len(lines) : Trim(lines[i]) # << >> }
    IN IF filled = {} THEN {}
       ELSE LET f == Min(filled)
                closing == { c \in (f + 1)..Len(lines) : IsDelimiterLine(lines[c]) }
            IN IF ~IsDelimiterLine(lines[f]) \/ closing = {} THEN {}
               ELSE { lines[i] : i \in (f + 1)..(Min(closing) - 1) }

\* The header holds the literal marker 'prerender: false'.
DocMarkedOff(block) ==
    \E l \in DocHeaderLines(block) : IndexOf(l, <<"prerender:", "sp", "false">>, 1) # 0

RECURSIVE CountUnmarked(_, _)
CountUnmarked(files, i) ==
    IF i > Len(files) THEN 0
    ELSE LET blocks == MermaidBlocks(files[i].content, 1)
             here == IF DraftMarked(files[i].content) THEN 0
                     ELSE Cardinality({ k \in 1..Len(blocks) : ~DocMarkedOff(blocks[k]) })
         IN here + CountUnmarked(files, i + 1)

\* C10 (as claimed): a block whose header holds the marker 'prerender: false'
\* queues no task, whatever else it holds: the tasks of a pass are at most
\* the blocks whose header does not hold the marker.
SkipFlagHonored ==
    planPc = "done" => Len(diagramTasks) <= CountUnmarked(docFiles, 1)

\* What the code does keep of C10: a block queues no task when the text
\* between its first two runs of three dashes holds the marker.
SkipFlagHonoredOfCode ==
    planPc = "done" =>
       \A i \in 1..Len(docFiles) :
          LET blocks == MermaidBlocks(docFiles[i].content, 1) IN
          \A k \in 1..Len(blocks) :
             KeyWsValue(MetadataContent(blocks[k]), "prerender:", "false")
                => BlockTasks(blocks[k], LocaleOf(docFiles[i].path)) = << >>

\* The explicit identity a header gives: the text after "id:" on the first
\* header line that holds the key, trimmed; << >> when no line holds it or the
\* text is empty.  The header is taken as the code takes it, the text between
\* the first two runs of three dashes.
ExplicitId(block) ==
    LET lines == SplitLines(MetadataContent(block))
        keyed == { i \in 1..Len(lines) : IndexOf(lines[i], <<"id:">>, 1) # 0 }
    IN IF keyed = {} THEN << >>
       ELSE LET l == lines[Min(keyed)]
            IN Trim(SubSeq(l, IndexOf(l, <<"id:">>, 1) + 1, Len(l)))

\* The blocks of the one file of SpecExtract.
ExtractBlocks == MermaidBlocks(docFiles[1].content, 1)

\* C11 (as claimed): the identity of a queued block is the explicit identity
\* of its header, trimmed, when that is not empty, whatever the body; and
\* otherwise the digest of the stripped, trimmed body.
IdentityPrecedence ==
    (planPc = "done" /\ Len(docFiles) = 1 /\ Len(diagramTasks) = 1) =>
       LET b == ExtractBlocks[1] IN
       diagramTasks[1].id =
          IF ExplicitId(b) # << >> THEN ExplicitId(b) ELSE createHash(MermaidCode(b))

\* What the code does keep of C11: the identity is the trimmed group of the
\* identity expression over the header when the group is not empty, and the
\* digest of the stripped, trimmed body otherwise; an explicit identity that
\* is not empty is always taken.
IdentityPrecedenceOfCode ==
    (planPc = "done" /\ Len(docFiles) = 1 /\ Len(diagramTasks) = 1) =>
       LET b == ExtractBlocks[1] IN
       /\ ExplicitId(b) # << >> => diagramTasks[1].id = ExplicitId(b)
       /\ IdGroup(MetadataContent(b)) = << >>
             => diagramTasks[1].id = createHash(MermaidCode(b))

\* The files of SpecNames: one body under the explicit identities x and x-p
\* and without a header, in every locale of PathMenu, and a draft.
NamesBlockLists ==
    { << Block(<< >>, <<"g">>) >>,
      << BlockIdX(<<"g">>), BlockIdXP(<<"g">>), Block(<< >>, <<"g">>) >> }

NamesFileSet ==
    { [path |-> p, content |-> FileContent(<< >>, bl)] :
         p \in PathMenu, bl \in NamesBlockLists }
    \cup { [path |-> <<"docs", "/", "f.md">>,
            content |-> FileContent(Line(<<"draft:", "sp", "true">>),
                                    << BlockIdX(<<"g">>) >>)] }

InitNames ==
    /\ docFiles \in SeqsUpTo(NamesFileSet, MaxFiles)
    /\ PlanStart

SpecNames == InitNames /\ [][NextPlan]_vars

\* The blocks that queued the tasks of the pass, in the order of the tasks:
\* the blocks of the files without the draft marker that queue a task, each
\* with the locale of its file.
RECURSIVE QueuedBlocks(_, _)
QueuedBlocks(files, i) ==
    IF i > Len(files) THEN << >>
    ELSE LET blocks == MermaidBlocks(files[i].content, 1)
             here == IF DraftMarked(files[i].content) THEN << >>
                     ELSE Flatten([k \in 1..Len(blocks) |->
                             IF BlockTasks(blocks[k], LocaleOf(files[i].path)) = << >>
                             THEN << >>
                             ELSE << [block |-> blocks[k],
                                      locale |-> LocaleOf(files[i].path)] >>])
         IN here \o QueuedBlocks(files, i + 1)

\* The number of tasks left by the deduplication that have one of the names.
TasksNamed(names) ==
    Cardinality({ u \in 1..Len(uniqueTasks) : uniqueTasks[u].filename \in names })

\* Two queued blocks with the same body and two different explicit identities
\* in one locale.
TwoIdsOneLocale(q, i, j) ==
    /\ diagramTasks[i].mermaidCode = diagramTasks[j].mermaidCode
    /\ ExplicitId(q[i].block) # << >>
    /\ ExplicitId(q[j].block) # << >>
    /\ ExplicitId(q[i].block) # ExplicitId(q[j].block)
    /\ q[i].locale = q[j].locale

\* Two queued blocks with the same body and no header, in two locales.
OneBodyTwoLocales(q, i, j) ==
    /\ diagramTasks[i].mermaidCode = diagramTasks[j].mermaidCode
    /\ ~MetadataMatches(q[i].block)
    /\ ~MetadataMatches(q[j].block)
    /\ q[i].locale # q[j].locale

ExtractionIdempotent ==
    planPc = "done" =>
       \A i \in TaskIndices :
          LET body == diagramTasks[i].mermaidCode IN
          /\ ~MetadataMatches(body)
          /\ MetadataContent(body) = << >>
          /\ Trim(StripMetadata(body)) = body

\* What the code does keep of C13: a body with fewer than two runs of three
\* dashes is returned unchanged by a second extraction.
ExtractionIdempotentOfCode ==
    planPc = "done" =>
       \A i \in TaskIndices :
          LET body == diagramTasks[i].mermaidCode IN
          IndexOf(body, DashRun(3), IndexOf(body, DashRun(3), 1) + 3) = 0
             => /\ MetadataContent(body) = << >>
                /\ Trim(StripMetadata(body)) = body

\* The steps a task may take, as pairs of places: admission, existence
\* check, temp write, renderer invocation, deletion; and the start of a new
\* pass, which takes every task back to the beginning.
StepOrder ==
    { <<"idle", "queued">>, <<"idle", "access">>, <<"queued", "access">>,
      <<"access", "write">>, <<"access", "done">>,
      <<"write", "exec">>, <<"write", "done">>,
      <<"exec", "unlink">>, <<"unlink", "done">>,
      <<"done", "idle">>, <<"done", "queued">>, <<"done", "access">> }

StepInv ==
    \A t \in AllTasks :
       /\ execCount[t] >= 1 => t \in wroteTemp
       /\ pc[t] = "exec" <=> t \in execRunning
       /\ t \in execRunning => (t \in wroteTemp /\ t \notin unlinkAttempted)
       /\ t \in unlinkAttempted =>
             (t \in wroteTemp /\ execCount[t] >= 1 /\ t \notin execRunning)
       /\ pc[t] = "unlink" => t \in unlinkAttempted

StepAct ==
    \A t \in AllTasks : pc'[t] # pc[t] => <<pc[t], pc'[t]>> \in StepOrder

\* C19: within every task the steps come in the order existence check, temp
\* write, renderer invocation, temp deletion: the renderer is never invoked
\* before the task has written its temp file, and the task never starts the
\* deletion while its renderer invocation is running.
StepOrderHolds == []StepInv /\ [][StepAct]_vars

\* C19 witness: one task has gone through the four steps and ended while
\* another task's renderer invocation is running.
StepOrderWitness ==
    \E t, u \in TaskIds :
       /\ pc[t] = "done" /\ outcome[t] = "rendered"
       /\ t \in wroteTemp /\ t \in unlinkAttempted /\ t \notin tempFiles
       /\ pc[u] = "exec" /\ u \in tempFiles

\* ---- claims about a whole pass ----

\* C14: when the reading of a content file fails, the call rejects and uses
\* no partial result: no task is created, no temp file is written, no
\* renderer invocation is started and no output file is created by the pass.
ScanFailureFatal ==
    readFailed =>
       /\ fnState = "rejected"
       /\ planPc = "rejected"
       /\ uniqueTasks = << >>
       /\ \A t \in AllTasks : pc[t] = "idle" /\ execCount[t] = 0
       /\ wroteTemp = {}
       /\ tempFiles = {}
       /\ execRunning = {}
       /\ outputs = existedAtStart

\* C14 witness: the first file was read and queued a task, the reading of
\* the second failed and the call is rejected.
ScanFailureFatalWitness ==
    /\ readFailed
    /\ fileIdx = 2
    /\ diagramTasks # << >>
    /\ fnState = "rejected"

\* C18 (as claimed): a task that finds its output file counts as skipped,
\* writes no temp file and invokes no renderer; and no output file a task
\* found at its check is written again by the pass.
CacheHitFrame ==
    /\ \A t \in TaskIds :
          outcome[t] = "skipped" => (t \notin wroteTemp /\ execCount[t] = 0)
    /\ skippedCount = Cardinality({ t \in TaskIds : outcome[t] = "skipped" })
    /\ clobbered = {}

\* What the code does keep of C18: the skipped task itself writes nothing and
\* invokes nothing.
CacheHitFrameOfCode ==
    /\ \A t \in TaskIds :
          outcome[t] = "skipped" =>
             (t \notin wroteTemp /\ execCount[t] = 0 /\ t \notin unlinkAttempted)
    /\ skippedCount = Cardinality({ t \in TaskIds : outcome[t] = "skipped" })

\* C20 (as claimed): no two tasks in flight at the same time have the same
\* output path or the same temp path.
NoSharedPaths ==
    \A t, u \in InFlight :
       t # u => (OutKey(t) # OutKey(u) /\ TempKey(t) # TempKey(u))

\* What the code does keep of C20: the tasks of a pass have pairwise
\* different filenames.
NoSharedPathsOfCode ==
    \A t, u \in 1..Len(uniqueTasks) :
       t # u => uniqueTasks[t].filename # uniqueTasks[u].filename

\* ---- claims about loadContent ----

\* The passes the color mode configuration asks for, written out: the light
\* theme with the light suffix then the dark theme with the dark suffix, or,
\* the switch disabled, the theme and the suffix of the default mode alone.
ExpectedPasses ==
    IF disableSwitch
    THEN IF defaultMode = "dark"
         THEN << [themeName |-> "dark", outputSuffix |-> <<"-", "dark">>] >>
         ELSE << [themeName |-> "neutral", outputSuffix |-> <<"-", "light">>] >>
    ELSE << [themeName |-> "neutral", outputSuffix |-> <<"-", "light">>],
            [themeName |-> "dark", outputSuffix |-> <<"-", "dark">>] >>

\* The output path of an image, written out.
ImagePath(id, locale, suffix) ==
    PathJoin(<<"outputDir">>, id \o <<"-">> \o locale \o suffix \o <<".", "svg">>)

NoUsableConfig ==
    /\ loadPc \in {"passes", "done", "rejected"}
    /\ ~configFileExists
    /\ ~didCreateTempConfig

RECURSIVE JoinLines(_)
JoinLines(lines) ==
    IF lines = << >> THEN << >>
    ELSE IF Len(lines) = 1 THEN Head(lines)
    ELSE Head(lines) \o <<"nl">> \o JoinLines(Tail(lines))

DocBody(value) ==
    LET lines == SplitLines(value)
        filled == { i \in 1..Len(lines) : Trim(lines[i]) # << >> }
    IN IF filled = {} THEN << >>
       ELSE LET f == Min(filled)
                closing == { c \in (f + 1)..Len(lines) : IsDelimiterLine(lines[c]) }
            IN IF ~IsDelimiterLine(lines[f]) \/ closing = {} THEN Trim(value)
               ELSE Trim(JoinLines(SubSeq(lines, Min(closing) + 1, Len(lines))))

IsMermaidCode(node) == node.type = "code" /\ node.lang = "mermaid"

\* C17 (as claimed): a mermaid code node whose header holds the marker
\* 'prerender: false' is not replaced by a figure: after the transformer it
\* is a mermaid code node whose value is the body without the header, in a
\* production build and in development.
LeftForClient ==
    remarkPc = "done" =>
       \A i \in 1..Len(sourceTree) :
          (IsMermaidCode(sourceTree[i]) /\ DocMarkedOff(sourceTree[i].value)) =>
             /\ IsMermaidCode(tree[i])
             /\ tree[i].value = DocBody(sourceTree[i].value)

\* What the code does keep of C17: the node stays a mermaid code node,
\* without the text between its first two runs of three dashes, when that
\* text holds the marker; every other mermaid code node becomes a figure.
LeftForClientOfCode ==
    remarkPc = "done" =>
       /\ Len(tree) = Len(sourceTree)
       /\ \A i \in 1..Len(sourceTree) :
             IF ~IsMermaidCode(sourceTree[i]) THEN tree[i] = sourceTree[i]
             ELSE IF KeyWsValue(MetadataContent(sourceTree[i].value), "prerender:", "false")
                  THEN /\ IsMermaidCode(tree[i])
                       /\ tree[i].value = Trim(StripMetadata(sourceTree[i].value))
             ELSE tree[i].type = "figure"

\* ---- further claims about the execution of a pass ----

\* C21: a failed deletion of the temp file is recorded and changes nothing
\* else: the task keeps the class its renderer invocation gave it, so a
\* task that rendered is still counted as rendered, and the call rejects for
\* no other reason than a failure of the environment or of a temp write.
CleanupFailureNeutral ==
    /\ renderedCount = Cardinality({ t \in TaskIds : outcome[t] = "rendered" })
    /\ \A t \in unlinkFailed :
          /\ t \in unlinkAttempted
          /\ outcome[t] \in {"rendered", "failed"}
          /\ (outcome[t] = "rendered") = (execCount[t] = 1 /\ OutKey(t) \in outputs)
    /\ fnState = "rejected" => (envFailed \/ Rejected # {})
    /\ (fnState = "returned" /\ numTasks > 0) => summary = {Summary(renderedCount, skippedCount)}

\* C21 witness: the call has returned; a task rendered its image, the
\* deletion of its temp file failed, the file is still there and the task is
\* counted as rendered.
CleanupFailureNeutralWitness ==
    /\ fnState = "returned"
    /\ \E t \in TaskIds :
          /\ t \in unlinkFailed
          /\ outcome[t] = "rendered"
          /\ TempKey(t) \in tempFiles
          /\ renderedCount >= 1

\* ---- further claims about the planning of a pass ----

\* The places of a filename among the candidate tasks.
PlacesOf(name) == { i \in 1..Len(diagramTasks) : diagramTasks[i].filename = name }

\* C22: of the candidate tasks with one output filename exactly one remains,
\* it is the last-scanned of them (so it carries that candidate's body), and
\* the remaining tasks stand in the order of the first occurrences of their
\* filenames.
DedupLastAtFirst ==
    planPc = "done" =>
       /\ \A i \in 1..Len(diagramTasks) :
             \E k \in 1..Len(uniqueTasks) :
                /\ uniqueTasks[k].filename = diagramTasks[i].filename
                /\ \A m \in 1..Len(uniqueTasks) :
                      uniqueTasks[m].filename = diagramTasks[i].filename => m = k
                /\ uniqueTasks[k] = diagramTasks[Max(PlacesOf(diagramTasks[i].filename))]
                /\ uniqueTasks[k].mermaidCode =
                      diagramTasks[Max(PlacesOf(diagramTasks[i].filename))].mermaidCode
       /\ \A k \in 1..Len(uniqueTasks) : PlacesOf(uniqueTasks[k].filename) # {}
       /\ \A k, m \in 1..Len(uniqueTasks) :
             k < m => Min(PlacesOf(uniqueTasks[k].filename))
                         < Min(PlacesOf(uniqueTasks[m].filename))

\* C22 witness: three candidates, the first and the third with one filename
\* and different bodies; two tasks remain, the first with the third's body.
DedupLastAtFirstWitness ==
    /\ planPc = "done"
    /\ Len(diagramTasks) = 3
    /\ Len(uniqueTasks) = 2
    /\ diagramTasks[1].filename = diagramTasks[3].filename
    /\ diagramTasks[1].filename # diagramTasks[2].filename
    /\ diagramTasks[1].mermaidCode # diagramTasks[3].mermaidCode
    /\ uniqueTasks[1].mermaidCode = diagramTasks[3].mermaidCode
    /\ uniqueTasks[2] = diagramTasks[2]

\* The tasks a file adds when a file holding the draft marker adds none.
NonDraftTasks(file) ==
    IF KeyWsValue(file.content, "draft:", "true") THEN << >> ELSE FileTasks(file)

\* The scan is over only when it is past the last file.
DraftInv == planPc = "done" => fileIdx = Len(docFiles) + 1

\* A step past a file adds that file's tasks, none for a draft, and goes to
\* the next file.
DraftAct ==
    fileIdx' # fileIdx =>
       /\ fileIdx' = fileIdx + 1
       /\ diagramTasks' = diagramTasks \o NonDraftTasks(docFiles[fileIdx])

\* C23: a file holding the draft marker adds no candidate task, whatever
\* blocks it holds; the scan goes on to the next file, and a scan no read
\* failure stops goes through every file.
DraftSkipped == []DraftInv /\ [][DraftAct]_vars

\* C23 witness: the scan is over; the first file holds the draft marker and
\* two blocks, the second file's block is the only task.
DraftSkippedWitness ==
    /\ planPc = "done"
    /\ Len(docFiles) = 2
    /\ KeyWsValue(docFiles[1].content, "draft:", "true")
    /\ Len(MermaidBlocks(docFiles[1].content, 1)) = 2
    /\ FileTasks(docFiles[2]) # << >>
    /\ diagramTasks = FileTasks(docFiles[2])
    /\ Len(uniqueTasks) = 1

\* ---- further claims about the plugin ----

\* C24: over the calls of loadContent in one process, a call makes passes
\* only in a production build whose flag is not set; the flag is set only by
\* a call all of whose theme passes returned; once it is set every later
\* call makes no pass; a call that rejects leaves the flag as it was.
RunOnce ==
    /\ loadPc = "passes" => (nodeEnv = "production" /\ ~staticRendered)
    /\ passLog # << >> => nodeEnv = "production"
    /\ callLog # << >> => staticRendered = callLog[Len(callLog)].flagAfter
    /\ \A i \in 1..Len(callLog) :
          /\ callLog[i].passes > 0 =>
                (nodeEnv = "production" /\ ~callLog[i].flagBefore)
          /\ (callLog[i].flagAfter /\ ~callLog[i].flagBefore) =>
                /\ callLog[i].result = "done"
                /\ callLog[i].passes = Len(Themes)
                /\ callLog[i].returned = Len(Themes)
          /\ callLog[i].result = "rejected" =>
                /\ callLog[i].flagAfter = callLog[i].flagBefore
                /\ callLog[i].returned < callLog[i].passes
          /\ callLog[i].flagBefore =>
                (callLog[i].passes = 0 /\ callLog[i].flagAfter)
          /\ i > 1 => callLog[i].flagBefore = callLog[i - 1].flagAfter

\* C24 witness: three calls in a build with two themes.  The first rejects
\* in a pass and leaves the flag unset, the second makes both passes and
\* sets it, the third makes none.
RunOnceWitness ==
    /\ Len(callLog) = 3
    /\ Len(Themes) = 2
    /\ callLog[1].result = "rejected" /\ callLog[1].passes >= 1
    /\ ~callLog[1].flagAfter
    /\ callLog[2].result = "done" /\ callLog[2].passes = 2
    /\ callLog[2].flagAfter
    /\ callLog[3].result = "skipped" /\ callLog[3].passes = 0
    /\ staticRendered

\* ---- further claims about the pool ----

\* C25 (as claimed): whatever concurrency is configured, the pool of a pass
\* has at least one slot and at most the configured number, and a pass with
\* a task to run admits one.
PoolLowerBound ==
    (fnState # "idle" /\ ~envFailed) =>
       /\ PoolSize(concurrency) >= 1
       /\ PoolSize(concurrency) <= concurrency
       /\ numTasks >= 1 => \E t \in TaskIds : pc[t] # "idle"

\* What the code does keep of C25: with a configured concurrency of 1 or
\* more the pool has that many slots and a pass with a task admits one; with
\* any other value the call rejects and no task is ever admitted.
PoolLowerBoundOfCode ==
    (fnState # "idle" /\ ~envFailed) =>
       IF concurrency >= 1
       THEN /\ PoolSize(concurrency) = concurrency
            /\ activeCount <= concurrency
            /\ numTasks >= 1 => \E t \in TaskIds : pc[t] # "idle"
       ELSE /\ fnState = "rejected"
            /\ \A t \in AllTasks : pc[t] = "idle"

\* ---- claims about the renderer and the transformer together ----

EndsWith(s, tail) ==
    /\ Len(tail) <= Len(s)
    /\ SubSeq(s, Len(s) - Len(tail) + 1, Len(s)) = tail

\* The file the transformer was given: scanned by the passes of this build
\* and not a draft.
ScannedFiles ==
    { i \in 1..Len(docFiles) :
        /\ EndsWith(filePath, <<"/">> \o docFiles[i].path)
        /\ ~KeyWsValue(docFiles[i].content, "draft:", "true") }

\* The image filenames the transformed tree refers to.
Referenced ==
    UNION { { tree[k].images[m] : m \in 1..Len(tree[k].images) } : k \in 1..Len(tree) }

BuildRendered ==
    /\ remarkPc = "done"
    /\ loadPc = "done"
    /\ callLog # << >> /\ callLog[Len(callLog)].passes = Len(Themes)

\* C26 (as claimed): in a build whose passes have run, every image filename
\* the transformer refers to for a block of a scanned file that is not a
\* draft is the filename of a task one of the passes planned.
NamesAgree ==
    (BuildRendered /\ ScannedFiles # {}) => Referenced \subseteq planned

\* What the code does keep of C26: the names agree for a file whose fences
\* are not indented and whose absolute path holds an i18n directory only
\* where its path in the site does.
NamesAgreeOfCode ==
    (BuildRendered /\ ScannedFiles # {}) =>
       \A i \in ScannedFiles :
          ( /\ \A p \in 1..Len(docFiles[i].content) :
                  docFiles[i].content[p] = "fence:mermaid"
                     => FenceIndent(docFiles[i].content, p) = 0
            /\ LocaleGroup(filePath) = LocaleGroup(docFiles[i].path) )
          => Referenced \subseteq planned

\* The case of NamesAgreeOfCode happens: a figure with two images, both of
\* them planned.
NamesAgreeOfCodeWitness ==
    /\ BuildRendered
    /\ ScannedFiles # {}
    /\ Cardinality(Referenced) >= 2
    /\ Referenced \subseteq planned

\* ---- further claims about loadContent ----

\* C27: a temp config loadContent wrote is on disk as long as the passes of
\* the call run and every pass is given its path; the call tries to delete
\* it when the passes have ended, by returning or by rejecting; it tries to
\* delete nothing else, so a config file of the site stays.
TempConfigLifetime ==
    /\ (loadPc = "passes" /\ didCreateTempConfig) =>
          (tempConfigOnDisk /\ themeConfigPath = "temp")
    /\ didCreateTempConfig =>
          \A k \in 1..Len(passLog) : passLog[k].themeConfigPath = "temp"
    /\ themeConfigPath = "physical" => configFileExists
    /\ \A i \in 1..Len(callLog) :
          /\ callLog[i].result \in {"done", "rejected"} =>
                callLog[i].unlinkTried = callLog[i].created
          /\ callLog[i].result = "skipped" => ~callLog[i].unlinkTried

\* C27 witness: a call wrote a temp config, its first pass returned, its
\* second rejected, and the temp config was deleted after that.
TempConfigLifetimeWitness ==
    /\ loadPc = "rejected"
    /\ callLog # << >>
    /\ callLog[1].created /\ callLog[1].unlinkTried
    /\ callLog[1].passes = 2 /\ callLog[1].returned = 1
    /\ passLog[1].themeConfigPath = "temp" /\ passLog[2].themeConfigPath = "temp"
    /\ ~tempConfigOnDisk

\* ---- claims about the store ----

\* A set has changed the keys it was given and no other.
SetMerges(before, given, after) ==
    /\ DOMAIN after = DOMAIN before \cup DOMAIN given
    /\ \A k \in DOMAIN after :
          after[k] = IF k \in DOMAIN given THEN given[k] ELSE before[k]

\* Some of the keys of a record.
Restrict(r, K) == [k \in K |-> r[k]]

\* globalStore.set, whatever keys it is given, changes those and no other.
SetKeepsOtherKeys ==
    /\ \A n \in 1..Len(stored) :
          n = Len(stored) => SetMerges(stored[n].before, stored[n].given, store)
    /\ \A K \in SUBSET DOMAIN StoreDefaults :
          LET given == Restrict(StoreOptions(disableSwitch, defaultMode), K) IN
          SetMerges(store, given, StoreSet(store, given))

\* C28 (as claimed): once the plugin is initialised, every transformer
\* instance uses the options the plugin stored, whether it was created
\* before or after the initialisation; and a set changes only the keys it is
\* given.
HandOff ==
    /\ stored # << >> =>
          \A i \in 1..NumInstances :
             instances[i] # << >> => instances[i] = stored[Len(stored)].given
    /\ SetKeepsOtherKeys

\* What the code does keep of C28: an instance uses the options the store
\* held when it was created, the plugin's if the plugin was initialised by
\* then and the defaults of the store if not; and a set changes only the
\* keys it is given.
HandOffOfCode ==
    /\ \A i \in 1..NumInstances :
          instances[i] # << >> =>
             instances[i] \in { StoreDefaults } \cup { stored[n].given : n \in 1..Len(stored) }
    /\ stored = << >> =>
          \A i \in 1..NumInstances : instances[i] \in { << >>, StoreDefaults }
    /\ stored # << >> => store = stored[Len(stored)].given
    /\ SetKeepsOtherKeys

====
